---- MODULE Spec2Model ----
(***************************************************************************)
(* A state-machine model of the chatbot core: CacheManager,                *)
(* PerformanceMonitor, ConversationStateManager, ContextManager and the    *)
(* EnhancedMessageProcessor pipeline (app/core/advanced_features.py,       *)
(* app/core/chatbot_core.py, app/db/crud.py).                              *)
(*                                                                         *)
(* Texts are records: id names the text, len is len(text), blank says      *)
(* whether text.strip() is empty, kw is the set of classifier keywords     *)
(* that occur in text.lower().  Time is time.time() in whole seconds.      *)
(***************************************************************************)
EXTENDS Integers, Sequences, FiniteSets, TLC

VARIABLES
    now,                 \* time.time()
    ticks,               \* how often the clock has advanced
    cache_manager,       \* CacheManager: memory_cache, cache_hits, cache_misses, redis_client
    redis_store,         \* the contents of the external Redis server
    performance_monitor, \* PerformanceMonitor: response_times, error_count, total_requests, concurrent_requests
    db_messages,         \* table messages, per conversation, in created_at order
    db_summaries,        \* table summaries, per conversation, in created_at order
    conversation_states, \* ConversationStateManager.conversation_states
    calls,               \* the process_message_enhanced invocations and where each stands
    last_op,             \* the most recent direct CacheManager call and what it returned
    scopes,              \* the direct measure_request scopes and where each stands
    hash_calls,          \* the direct create_messages_hash calls: argument, time, result
    metrics_reader,      \* the thread inside get_metrics: its position and what it has read
    app_state,           \* main.py: the environment, the engine globals, the last /health answer
    llm_calls            \* the OpenAIProvider.generate_response calls, oldest first, and where each stands

vars == <<now, ticks, cache_manager, redis_store, performance_monitor, db_messages,
          db_summaries, conversation_states, calls, last_op, scopes, hash_calls,
          metrics_reader, app_state, llm_calls>>

------------------------------------------------------------------------------
(* Bounds of the model *)

MaxTicks == 2
MaxCacheOps == 3
MaxScopes == 3
MaxCalls == 2
MaxCadenceCalls == 11
MaxHistory == 6
MaxStored == 3
MaxSummaries == 2
MaxHashLen == 2
MaxStatsOps == 4
MaxInitCalls == 2
MaxSystemRows == 1
MaxFailedTurns == 1
MaxProviderCalls == 2
window_size == 2

(* Program constants *)

default_ttl == 3600
response_ttl == 1800
max_input_length == 2000
summarize_threshold == 20
max_context_tokens == 3000
message_overhead_tokens == 4
chars_per_token == 4
max_retries == 3
ingress_max_length == 4000
phase_window == 5
greeting_max_messages == 2

------------------------------------------------------------------------------
(* Values *)

None == [id |-> "None", len |-> 0, blank |-> TRUE, kw |-> {"<None>"}]

TxtEmpty == [id |-> "", len |-> 0, blank |-> TRUE, kw |-> {}]
TxtHi == [id |-> "hi", len |-> 2, blank |-> FALSE, kw |-> {"hi"}]
TxtHello == [id |-> "hello", len |-> 5, blank |-> FALSE, kw |-> {"hello"}]
TxtProblem == [id |-> "I have a problem", len |-> 16, blank |-> FALSE, kw |-> {"problem"}]
TxtMax == [id |-> "x * 2000", len |-> max_input_length, blank |-> FALSE, kw |-> {}]
TxtOver == [id |-> "x * 2001", len |-> max_input_length + 1, blank |-> FALSE, kw |-> {}]
TxtIngressMax == [id |-> "x * 4000", len |-> ingress_max_length, blank |-> FALSE, kw |-> {}]
RespOk == [id |-> "ok", len |-> 2, blank |-> FALSE, kw |-> {}]

\* Texts whose token estimate with the message overhead is half of
\* max_context_tokens, all of it, and one more.
TxtHalfBudget ==
    [id |-> "x * 5984", blank |-> FALSE, kw |-> {},
     len |-> chars_per_token * (max_context_tokens \div 2 - message_overhead_tokens)]
TxtFullBudget ==
    [id |-> "x * 11984", blank |-> FALSE, kw |-> {},
     len |-> chars_per_token * (max_context_tokens - message_overhead_tokens)]
TxtOverBudget ==
    [id |-> "x * 11988", blank |-> FALSE, kw |-> {},
     len |-> chars_per_token * (max_context_tokens - message_overhead_tokens + 1)]
RespEmpty == TxtEmpty

\* Python truthiness of an Optional[str]: None and "" are falsy.
Truthy(v) == v # None /\ v.len > 0

Min(a, b) == IF a <= b THEN a ELSE b

Max(a, b) == IF a >= b THEN a ELSE b

------------------------------------------------------------------------------
(* CacheManager *)

\* CacheManager.__init__: redis_client stays None without a redis_url.
NewCacheManager(has_redis) ==
    [memory_cache |-> << >>, cache_hits |-> 0, cache_misses |-> 0, redis_client |-> has_redis]

\* How the try block of CacheManager.__init__ can end when a redis_url is given:
\* from_url and ping both succeed; from_url succeeds and ping raises; import or
\* from_url raises.
RedisConstructOutcomes == {"connected", "ping_raises", "from_url_raises"}

\* Whether self.redis_client is set after __init__: it is assigned before ping()
\* is called, so a failing ping leaves the client in place.
RedisClientAfterInit(redis_url, outcome) == redis_url /\ outcome # "from_url_raises"

\* json.dumps(value) and json.loads(text) of the Redis path.
JsonDumps(value) == <<"json", value>>

JsonLoads(text) == text[2]

\* The dictionary d with d[key] = item.
DictSet(d, key, item) == [k \in DOMAIN d \cup {key} |-> IF k = key THEN item ELSE d[k]]

\* The dictionary d after del d[key].
DictDel(d, key) == [k \in DOMAIN d \ {key} |-> d[k]]

\* redis_client.get(key): the stored text, or None once the key's ttl has run out.
RedisGet(store, key, t) ==
    IF key \in DOMAIN store /\ store[key].expires > t THEN store[key].value ELSE None

\* A lookup that still serves an entry at the very second it expires.
MemoryGet_InclusiveExpiry(cm, key, t) ==
    IF key \in DOMAIN cm.memory_cache
    THEN IF cm.memory_cache[key].expires >= t
         THEN [ret |-> cm.memory_cache[key].value,
               cm |-> [cm EXCEPT !.cache_hits = @ + 1]]
         ELSE [ret |-> None,
               cm |-> [cm EXCEPT !.memory_cache = DictDel(@, key), !.cache_misses = @ + 1]]
    ELSE [ret |-> None, cm |-> [cm EXCEPT !.cache_misses = @ + 1]]

\* The in-memory half of CacheManager.get: the result and the manager afterwards.
MemoryGet(cm, key, t) ==
    IF key \in DOMAIN cm.memory_cache
    THEN IF cm.memory_cache[key].expires > t
         THEN [ret |-> cm.memory_cache[key].value,
               cm |-> [cm EXCEPT !.cache_hits = @ + 1]]
         ELSE [ret |-> None,
               cm |-> [cm EXCEPT !.memory_cache = DictDel(@, key), !.cache_misses = @ + 1]]
    ELSE [ret |-> None, cm |-> [cm EXCEPT !.cache_misses = @ + 1]]

\* CacheManager.get(key) at time t; redis_raises says whether the Redis read raises.
CacheGet(cm, store, key, t, redis_raises) ==
    IF cm.redis_client
    THEN IF redis_raises
         THEN [ret |-> None, cm |-> [cm EXCEPT !.cache_misses = @ + 1]]
         ELSE IF RedisGet(store, key, t) # None
              THEN [ret |-> JsonLoads(RedisGet(store, key, t)),
                    cm |-> [cm EXCEPT !.cache_hits = @ + 1]]
              ELSE MemoryGet(cm, key, t)
    ELSE MemoryGet(cm, key, t)

\* The ttl argument of CacheManager.set: Optional[int], None when not passed.
NoTtl == [given |-> FALSE, seconds |-> 0]

Ttl(n) == [given |-> TRUE, seconds |-> n]

\* A set that stores every entry for default_ttl seconds, whatever ttl it is given.
EffectiveTtl_AlwaysDefault(ttl) == default_ttl

\* ttl = ttl or self.default_ttl: None and 0 are both falsy.
EffectiveTtl(ttl) == IF ~ttl.given \/ ttl.seconds = 0 THEN default_ttl ELSE ttl.seconds

\* A set whose except block reports success.
CacheSet_FailureReportedAsSuccess(cm, store, key, value, ttl, t, redis_raises) ==
    IF cm.redis_client
    THEN IF redis_raises
         THEN [ret |-> TRUE, cm |-> cm, store |-> store]
         ELSE [ret |-> TRUE, cm |-> cm,
               store |-> DictSet(store, key, [value |-> JsonDumps(value),
                                              expires |-> t + EffectiveTtl(ttl)])]
    ELSE [ret |-> TRUE,
          cm |-> [cm EXCEPT !.memory_cache =
                      DictSet(@, key, [value |-> value, expires |-> t + EffectiveTtl(ttl)])],
          store |-> store]

\* CacheManager.set(key, value, ttl) at time t: the result, the manager and the
\* Redis store afterwards.
CacheSet(cm, store, key, value, ttl, t, redis_raises) ==
    IF cm.redis_client
    THEN IF redis_raises
         THEN [ret |-> FALSE, cm |-> cm, store |-> store]
         ELSE [ret |-> TRUE, cm |-> cm,
               store |-> DictSet(store, key, [value |-> JsonDumps(value),
                                              expires |-> t + EffectiveTtl(ttl)])]
    ELSE [ret |-> TRUE,
          cm |-> [cm EXCEPT !.memory_cache =
                      DictSet(@, key, [value |-> value, expires |-> t + EffectiveTtl(ttl)])],
          store |-> store]

\* round(a / b * 100, 2) in hundredths, for a >= 0 and b > 0: the nearest
\* hundredth; a / b * 100 lies half-way between two hundredths for no b below 32.
RoundPercent(a, b) == (2 * a * 10000 + b) \div (2 * b)

\* A report whose rate is the number of hits per miss.
get_stats_hits_per_miss(cm) ==
    [hits |-> cm.cache_hits, misses |-> cm.cache_misses,
     hit_rate_percent_x100 |->
         IF cm.cache_hits + cm.cache_misses > 0
         THEN RoundPercent(cm.cache_hits, Max(cm.cache_misses, 1))
         ELSE 0,
     memory_cache_size |-> Cardinality(DOMAIN cm.memory_cache),
     redis_connected |-> cm.redis_client]

\* CacheManager.get_stats(); hit_rate_percent is kept in hundredths of a percent.
get_stats(cm) ==
    [hits |-> cm.cache_hits, misses |-> cm.cache_misses,
     hit_rate_percent_x100 |->
         IF cm.cache_hits + cm.cache_misses > 0
         THEN RoundPercent(cm.cache_hits, cm.cache_hits + cm.cache_misses)
         ELSE 0,
     memory_cache_size |-> Cardinality(DOMAIN cm.memory_cache),
     redis_connected |-> cm.redis_client]

------------------------------------------------------------------------------
(* PerformanceMonitor *)

\* A list that grows without bound: list.append(x).
list_append(q, x, maxlen) == Append(q, x)

\* deque(maxlen=maxlen).append(x): a full deque drops its oldest element.
deque_append(q, x, maxlen) ==
    IF Len(q) >= maxlen THEN SubSeq(q \o <<x>>, Len(q) + 2 - maxlen, Len(q) + 1)
    ELSE Append(q, x)

\* An entry block whose request counter wraps around.
measure_enter_wrapping(pm) ==
    [pm EXCEPT !.concurrent_requests = @ + 1, !.total_requests = (@ + 1) % 2]

\* measure_request up to the yield: the first block under the lock.
measure_enter(pm) ==
    [pm EXCEPT !.concurrent_requests = @ + 1, !.total_requests = @ + 1]

\* An except block that forgets to count the error.
measure_except_uncounted(pm) == pm

\* The except Exception block of measure_request, under the lock.
measure_except(pm) == [pm EXCEPT !.error_count = @ + 1]

\* A finally block that records the duration and forgets the request counter.
measure_finally_no_decrement(pm, duration) ==
    [pm EXCEPT !.response_times = deque_append(@, duration, window_size)]

\* The finally block of measure_request, under the lock.
measure_finally(pm, duration) ==
    [pm EXCEPT !.response_times = deque_append(@, duration, window_size),
               !.concurrent_requests = @ - 1]

\* Bookkeeping done on the normal and the except path only, not in a finally.
measure_cancelled_no_finally(pm, duration) == pm

\* A CancelledError thrown into the scope at the yield is no Exception: the
\* except block is passed over and the finally block runs.
measure_cancelled(pm, duration) == measure_finally(pm, duration)

\* a / b rounded to the nearest integer, for a >= 0 and b > 0.
RoundDiv(a, b) == (2 * a + b) \div (2 * b)

RECURSIVE SumSeq(_)
SumSeq(q) == IF q = << >> THEN 0 ELSE Head(q) + SumSeq(Tail(q))

\* round(np.mean(samples) * 1000, 2), the samples in seconds, the result in
\* hundredths of a millisecond.
np_mean_ms(samples) == RoundDiv(SumSeq(samples) * 100000, Len(samples))

\* A percentile taken as one element of the sorted samples: the one at index
\* floor(q * n / 100), or the last one.
nearest_rank_percentile_ms(samples, q) ==
    LET sorted == SortSeq(samples, LAMBDA a, b : a < b)
        n == Len(sorted)
    IN sorted[Min((q * n) \div 100, n - 1) + 1] * 100000

\* round(np.percentile(samples, q) * 1000, 2), the samples in whole seconds, the
\* result in hundredths of a millisecond.  np.percentile sorts the samples and
\* interpolates linearly between the two order statistics around the position
\* (n - 1) * q / 100; with samples in whole seconds and q a whole number the
\* product is a whole number of hundredths of a millisecond.
np_percentile_ms(samples, q) ==
    LET sorted == SortSeq(samples, LAMBDA a, b : a < b)
        n == Len(sorted)
        lo == ((n - 1) * q) \div 100 + 1
        hi == Min(lo + 1, n)
        frac == ((n - 1) * q) % 100
    IN sorted[lo] * 100000 + frac * 1000 * (sorted[hi] - sorted[lo])

\* PerformanceMonitor.get_metrics, run without another thread in between, at
\* time t.  Percentages are in hundredths of a percent.
get_metrics(pm, t) ==
    LET response_times_list == pm.response_times
        error_rate == RoundPercent(pm.error_count, Max(pm.total_requests, 1))
    IN IF response_times_list # << >>
       THEN [uptime_seconds |-> t - pm.start_time,
             total_requests |-> pm.total_requests,
             error_count |-> pm.error_count,
             error_rate_percent |-> error_rate,
             concurrent_requests |-> pm.concurrent_requests,
             avg_response_time_ms |-> np_mean_ms(response_times_list),
             p95_response_time_ms |-> np_percentile_ms(response_times_list, 95)]
       ELSE [uptime_seconds |-> t - pm.start_time,
             total_requests |-> pm.total_requests,
             error_count |-> pm.error_count,
             error_rate_percent |-> error_rate,
             concurrent_requests |-> pm.concurrent_requests]

------------------------------------------------------------------------------
(* ConversationStateManager *)

ProblemKeywords == {"help", "problem", "issue"}

GreetingKeywords == {"hello", "hi", "hey"}

\* messages[-n:]
LastN(messages, n) ==
    SubSeq(messages, Max(1, Len(messages) - n + 1), Len(messages))

\* The keywords occurring in " ".join(contents).lower(): no keyword holds a space,
\* so each occurs in the joined text exactly when it occurs in one of the parts.
JoinedKeywords(messages) == UNION {messages[i].content.kw : i \in DOMAIN messages}

\* A classifier that tries the greeting rule before the problem rule.
analyze_greeting_rule_first(messages) ==
    IF messages = << >> THEN "greeting"
    ELSE IF /\ JoinedKeywords(LastN(messages, phase_window)) \cap GreetingKeywords # {}
            /\ Len(messages) <= greeting_max_messages
         THEN "greeting"
    ELSE IF JoinedKeywords(LastN(messages, phase_window)) \cap ProblemKeywords # {}
         THEN "problem_solving"
    ELSE "info_gathering"

\* A classifier that searches the whole history for keywords.
analyze_whole_history(messages) ==
    IF messages = << >> THEN "greeting"
    ELSE IF JoinedKeywords(messages) \cap ProblemKeywords # {}
         THEN "problem_solving"
    ELSE IF /\ JoinedKeywords(messages) \cap GreetingKeywords # {}
            /\ Len(messages) <= greeting_max_messages
         THEN "greeting"
    ELSE "info_gathering"

\* A classifier that takes a history without keywords for casual chat.
analyze_with_casual_chat(messages) ==
    IF messages = << >> THEN "greeting"
    ELSE IF JoinedKeywords(LastN(messages, phase_window)) \cap ProblemKeywords # {}
         THEN "problem_solving"
    ELSE IF /\ JoinedKeywords(LastN(messages, phase_window)) \cap GreetingKeywords # {}
            /\ Len(messages) <= greeting_max_messages
         THEN "greeting"
    ELSE IF JoinedKeywords(LastN(messages, phase_window)) = {}
         THEN "casual_chat"
    ELSE "info_gathering"

\* ConversationStateManager.analyze_conversation_phase, with the values of
\* ConversationPhase.
analyze_conversation_phase(messages) ==
    IF messages = << >> THEN "greeting"
    ELSE IF JoinedKeywords(LastN(messages, phase_window)) \cap ProblemKeywords # {}
         THEN "problem_solving"
    ELSE IF /\ JoinedKeywords(LastN(messages, phase_window)) \cap GreetingKeywords # {}
            /\ Len(messages) <= greeting_max_messages
         THEN "greeting"
    ELSE "info_gathering"

------------------------------------------------------------------------------
(* crud and ContextManager: the tables are kept in insertion order, which is *)
(* the created_at order the queries sort by                                  *)

IsUserOrAssistant(m) == m.role \in {"user", "assistant"}

\* A filter that lets every row through.
IsAnyRole(m) == TRUE

IsNotSystem(m) == m.role # "system"

\* crud.create_message
create_message(messages, conv, role, content) ==
    [messages EXCEPT ![conv] = Append(@, [role |-> role, content |-> content])]

\* crud.get_user_assistant_message_count
get_user_assistant_message_count(messages, conv) ==
    Len(SelectSeq(messages[conv], IsUserOrAssistant))

\* A check that also fires on the count right after a multiple of the threshold.
should_summarize_near_multiple(messages, conv) ==
    /\ get_user_assistant_message_count(messages, conv) >= summarize_threshold
    /\ get_user_assistant_message_count(messages, conv) % summarize_threshold <= 1

\* A check that fires once the count has reached the threshold.
should_summarize_from_threshold(messages, conv) ==
    get_user_assistant_message_count(messages, conv) >= summarize_threshold

\* ContextManager.should_summarize
should_summarize(messages, conv) ==
    /\ get_user_assistant_message_count(messages, conv) > 0
    /\ get_user_assistant_message_count(messages, conv) % summarize_threshold = 0

\* A selection that takes the last rows of the history whatever their role.
get_last_rows_for_summarization(messages, conv) ==
    LastN(messages[conv], summarize_threshold)

\* ContextManager.get_messages_for_summarization
get_messages_for_summarization(messages, conv) ==
    LastN(SelectSeq(messages[conv], IsUserOrAssistant), summarize_threshold)

\* The placeholder text process_message_enhanced stores as the summary.
SummaryText ==
    [id |-> "Summary of previous messages.", len |-> 29, blank |-> FALSE, kw |-> {}]

\* crud.create_summary
create_summary(summaries, conv, text) == [summaries EXCEPT ![conv] = Append(@, text)]

\* A query that orders by created_at ascending: the oldest summary.
get_first_summary(summaries, conv) ==
    IF summaries[conv] = << >> THEN None ELSE summaries[conv][1]

\* ContextManager.get_latest_summary: the text of the newest summary, or None.
get_latest_summary(summaries, conv) ==
    IF summaries[conv] = << >> THEN None ELSE summaries[conv][Len(summaries[conv])]

\* An estimate of one token per character.
count_tokens_per_character(text) == text.len

\* OpenAIProvider.count_tokens
count_tokens(text) == text.len \div chars_per_token

\* OpenAIProvider.count_messages_tokens
RECURSIVE count_messages_tokens(_)
count_messages_tokens(messages) ==
    IF messages = << >> THEN 0
    ELSE count_tokens(Head(messages).content) + message_overhead_tokens
         + count_messages_tokens(Tail(messages))

\* A loop that drops the newest message, pop(), while over the budget.
RECURSIVE TrimNewestFirst(_)
TrimNewestFirst(message_dicts) ==
    IF message_dicts # << >> /\ count_messages_tokens(message_dicts) > max_context_tokens
    THEN TrimNewestFirst(SubSeq(message_dicts, 1, Len(message_dicts) - 1))
    ELSE message_dicts

\* The loop of prepare_context_for_llm: pop(0) while over the budget.
RECURSIVE TrimToBudget(_)
TrimToBudget(message_dicts) ==
    IF message_dicts # << >> /\ count_messages_tokens(message_dicts) > max_context_tokens
    THEN TrimToBudget(Tail(message_dicts))
    ELSE message_dicts

\* ContextManager.prepare_context_for_llm: the message dicts and the latest summary.
prepare_context_for_llm(messages, summaries, conv) ==
    [message_history |-> TrimToBudget(SelectSeq(messages[conv], IsNotSystem)),
     latest_summary |-> get_latest_summary(summaries, conv)]

------------------------------------------------------------------------------
(* PersonaManager and EnhancedMessageProcessor: the pure parts *)

PersonaContent == "You are a helpful and friendly AI assistant."

\* PersonaManager.generate_system_prompt(summary=summary): the persona, then the
\* summary section when the summary is truthy, then the instructions.
generate_system_prompt(summary) ==
    [persona |-> PersonaContent,
     summary |-> IF Truthy(summary) THEN summary ELSE None]

\* EnhancedMessageProcessor.generate_state_aware_prompt: the base prompt followed by
\* the value of the phase.
generate_state_aware_prompt(phase, summary) ==
    [base_prompt |-> generate_system_prompt(summary), phase |-> phase]

\* llm_messages of process_message_enhanced
BuildLlmMessages(phase, context) ==
    <<[role |-> "system",
       content |-> generate_state_aware_prompt(phase, context.latest_summary)]>>
    \o context.message_history

\* A Python dict is the sequence of its <<key, value>> pairs in insertion order.
\* {'role': ..., 'content': ...} as prepare_context_for_llm and
\* process_message_enhanced write it.
MessageDict(m) == <<<<"role", m.role>>, <<"content", m.content>>>>

\* The place of a key of a message dict among the keys in sorted order.
KeyRank(key) == IF key = "content" THEN 1 ELSE 2

\* The pairs of a dict in the order of their keys.
SortKeys(d) ==
    [i \in DOMAIN d |->
        d[CHOOSE j \in DOMAIN d :
              Cardinality({k \in DOMAIN d : KeyRank(d[k][1]) < KeyRank(d[j][1])}) = i - 1]]

\* json.dumps(messages) without sort_keys: every object with its keys in
\* insertion order.
json_dumps_insertion_order(dicts) == dicts

\* json.dumps(messages, sort_keys=True): the objects in order, each with its
\* keys in sorted order.
json_dumps_sort_keys(dicts) == [i \in DOMAIN dicts |-> SortKeys(dicts[i])]

\* create_messages_hash on a list of dicts: the md5 digest of the JSON text, taken
\* to be collision-free.
hash_of_dicts(dicts) == <<"md5", json_dumps_sort_keys(dicts)>>

\* The JSON text of the messages of the pipeline.
CanonicalJson(messages) ==
    json_dumps_sort_keys([i \in DOMAIN messages |-> MessageDict(messages[i])])

\* create_messages_hash on the messages of the pipeline.
create_messages_hash(messages) ==
    hash_of_dicts([i \in DOMAIN messages |-> MessageDict(messages[i])])

\* f"response:{messages_hash}"
ResponseKey(messages_hash) == <<"response:", messages_hash>>

------------------------------------------------------------------------------
(* The state every specification starts from *)

Convs == {"c1", "c2"}

\* The conversation followed by the specifications that follow a single one.
CadenceConv == "c1"

CallIds == 1..MaxCalls

ScopeIds == 1..MaxScopes

\* A call of process_message_enhanced (kind "enhanced") or of
\* MessageProcessor.process_message (kind "basic"): its arguments, its locals while it is
\* suspended (start_time, llm_messages, msg_count), what it returned (success,
\* response, error, message_count, summary_created, phase; raised when an
\* exception left it), and a record of what it did: the step that raised (fault),
\* whether another call on the same conversation was in flight during it (overlapped),
\* whether its cache lookup counted a hit and what the lookup returned, whether
\* the Redis call of its lookup or of its store raised and what set returned, and how
\* often it called create_message, CacheManager.get, CacheManager.set and
\* generate_response.
NoCall ==
    [pc |-> "new", kind |-> "none", conv |-> "c1", input |-> None, start_time |-> 0,
     fault |-> "none", overlapped |-> FALSE, history_last |-> None,
     prompt |-> << >>, key |-> << >>, set_at |-> 0, summary_persisted |-> FALSE,
     llm_messages |-> << >>, msg_count |-> 0, summary_created |-> FALSE,
     cache_hit |-> FALSE, cached |-> None,
     redis_get_raised |-> FALSE, redis_set_raised |-> FALSE, set_ok |-> FALSE,
     n_create_message |-> 0, n_cache_get |-> 0, n_cache_set |-> 0, n_generate |-> 0,
     success |-> FALSE, response |-> None, error |-> "",
     message_count |-> 0, phase |-> "", raised |-> ""]

NoScope == [pc |-> "new", start_time |-> 0, exit |-> "none"]

\* A get_metrics call: where the thread stands, the locals and dictionary entries
\* it has evaluated so far, and the states the monitor has been in since the call
\* began.
NoReader ==
    [pc |-> "new", response_times_list |-> << >>, total_requests |-> 0, error_count |-> 0,
     rate_error_count |-> 0, rate_total_requests |-> 0, concurrent_requests |-> 0,
     seen |-> {}, metrics |-> << >>]

NoOp == [n |-> 0, gets |-> 0, stats |-> << >>, op |-> "none", key |-> << >>, at |-> 0, redis_raises |-> FALSE,
         ret_value |-> None, ret_ok |-> FALSE, found_expired |-> FALSE, sets |-> << >>,
         attempts |-> << >>]

\* PerformanceMonitor.__init__
NewPerformanceMonitor ==
    [response_times |-> << >>, error_count |-> 0, total_requests |-> 0,
     concurrent_requests |-> 0, start_time |-> 0]

\* No /health request answered yet.  An answer is kept with what held when it was
\* made: whether the database answered, how the engine's check went, whether a
\* statement raised, which engine existed and whether it had been initialized.
NoAnswer ==
    [status_code |-> 0, overall_status |-> "", database |-> "", engine |-> "",
     openai_api |-> "", db_ok |-> FALSE, engine_check |-> "", raised |-> FALSE,
     production_engine |-> "", engine_initialized |-> FALSE]

\* returned_engine is what the last initialize_engine call returned and
\* get_engine_status how the last get_engine ended: 200 with an engine, 503 with
\* the HTTPException, 0 before any.
\* main.py as the module is loaded: the environment (OPENAI_API_KEY set or not, the
\* import of advanced_features succeeded or not), the globals production_engine,
\* engine_initialized and engine_init_error, the number of initialize_engine calls
\* and of engine constructions attempted, and the last /health answer.
NewApp(api_key, advanced_features_available) ==
    [api_key |-> api_key, advanced_features_available |-> advanced_features_available,
     production_engine |-> "None", engine_initialized |-> FALSE, engine_init_error |-> "",
     init_calls |-> 0, constructions |-> 0, health |-> NoAnswer,
     returned_engine |-> "", get_engine_status |-> 0]

InitApp(has_redis, api_key, advanced_features_available) ==
    /\ app_state = NewApp(api_key, advanced_features_available)
    /\ now = 0
    /\ ticks = 0
    /\ cache_manager = NewCacheManager(has_redis)
    /\ redis_store = << >>
    /\ performance_monitor = NewPerformanceMonitor
    /\ db_messages = [c \in Convs |-> << >>]
    /\ db_summaries = [c \in Convs |-> << >>]
    /\ conversation_states = [c \in Convs |-> "none"]
    /\ calls = [i \in CallIds |-> NoCall]
    /\ last_op = NoOp
    /\ scopes = [s \in ScopeIds |-> NoScope]
    /\ hash_calls = << >>
    /\ metrics_reader = NoReader
    /\ llm_calls = << >>

InitWith(has_redis) == InitApp(has_redis, TRUE, TRUE)

\* time.time() moves on by d seconds, at most limit times.
Tick(d, limit) ==
    /\ ticks < limit
    /\ now' = now + d
    /\ ticks' = ticks + 1
    /\ UNCHANGED <<llm_calls, app_state, hash_calls, metrics_reader, cache_manager, redis_store, performance_monitor, db_messages,
                   db_summaries, conversation_states, calls, last_op, scopes>>

------------------------------------------------------------------------------
(* SpecCache: a caller using one CacheManager directly *)

CacheKeys == {<<"k1">>, <<"k2">>}

CounterKeys == {<<"k1">>}

\* value: Any, the None of a response without content among them.
CacheValues == {RespOk, RespEmpty, None}

CacheTtls == {NoTtl, Ttl(0), Ttl(1)}

CacheTickSteps == {1, default_ttl}

\* await cache_manager.get(key)
CacheGetStep(key, redis_raises) ==
    /\ ~cache_manager.redis_client => ~redis_raises
    /\ LET r == CacheGet(cache_manager, redis_store, key, now, redis_raises) IN
        /\ cache_manager' = r.cm
        /\ last_op' = [last_op EXCEPT !.n = @ + 1, !.gets = @ + 1,
                                      !.op = "get", !.key = key, !.at = now,
                                      !.redis_raises = redis_raises,
                                      !.ret_value = r.ret, !.ret_ok = FALSE,
                                      !.found_expired =
                                          /\ key \in DOMAIN cache_manager.memory_cache
                                          /\ cache_manager.memory_cache[key].expires <= now]
    /\ UNCHANGED <<llm_calls, app_state, hash_calls, metrics_reader, now, ticks, redis_store, performance_monitor, db_messages,
                   db_summaries, conversation_states, calls, scopes>>

CacheGetOp(key, redis_raises) ==
    last_op.n < MaxCacheOps /\ CacheGetStep(key, redis_raises)

\* await cache_manager.set(key, value, ttl)
CacheSetStep(key, value, ttl, redis_raises) ==
    /\ ~cache_manager.redis_client => ~redis_raises
    /\ LET r == CacheSet(cache_manager, redis_store, key, value, ttl, now, redis_raises) IN
        /\ cache_manager' = r.cm
        /\ redis_store' = r.store
        /\ last_op' = [last_op EXCEPT !.n = @ + 1, !.op = "set", !.key = key, !.at = now,
                                      !.redis_raises = redis_raises,
                                      !.ret_value = None, !.ret_ok = r.ret,
                                      !.found_expired = FALSE,
                                      !.sets = IF r.ret
                                               THEN DictSet(@, key, [value |-> value,
                                                                     ttl |-> ttl, at |-> now])
                                               ELSE @,
                                      !.attempts = DictSet(@, key,
                                                       [value |-> value, ttl |-> ttl,
                                                        at |-> now,
                                                        redis_raises |-> redis_raises])]
    /\ UNCHANGED <<llm_calls, app_state, hash_calls, metrics_reader, now, ticks, performance_monitor, db_messages,
                   db_summaries, conversation_states, calls, scopes>>

CacheSetOp(key, value, ttl, redis_raises) ==
    last_op.n < MaxCacheOps /\ CacheSetStep(key, value, ttl, redis_raises)

CacheInit == InitWith(FALSE)

CacheNext ==
    \/ \E key \in CacheKeys, redis_raises \in BOOLEAN : CacheGetOp(key, redis_raises)
    \/ \E key \in CacheKeys, value \in CacheValues, ttl \in CacheTtls, redis_raises \in BOOLEAN :
           CacheSetOp(key, value, ttl, redis_raises)
    \/ \E d \in CacheTickSteps : Tick(d, MaxTicks)

SpecCache == CacheInit /\ [][CacheNext]_vars

\* The same caller with a CacheManager constructed with a redis_url.
RedisCacheInit ==
    \E outcome \in RedisConstructOutcomes : InitWith(RedisClientAfterInit(TRUE, outcome))

SpecCacheRedis == RedisCacheInit /\ [][CacheNext]_vars

------------------------------------------------------------------------------
(* SpecStats: a caller using one CacheManager, with or without a Redis client, *)
(* and asking it for its statistics                                            *)

StatsTickSteps == {1}

\* cache_manager.get_stats()
GetStatsOp ==
    /\ last_op.op # "stats"
    /\ last_op' = [last_op EXCEPT !.op = "stats", !.at = now,
                                  !.stats = get_stats(cache_manager)]
    /\ UNCHANGED <<llm_calls, app_state, now, ticks, cache_manager, redis_store, performance_monitor,
                   db_messages, db_summaries, conversation_states, calls, scopes,
                   hash_calls, metrics_reader>>

StatsGetOp(key, redis_raises) ==
    last_op.n < MaxStatsOps /\ CacheGetStep(key, redis_raises)

StatsSetOp(key, value, ttl, redis_raises) ==
    last_op.n < MaxStatsOps /\ CacheSetStep(key, value, ttl, redis_raises)

StatsNext ==
    \/ \E key \in CounterKeys, redis_raises \in BOOLEAN : StatsGetOp(key, redis_raises)
    \/ \E key \in CounterKeys, redis_raises \in BOOLEAN :
           StatsSetOp(key, RespOk, Ttl(1), redis_raises)
    \/ \E d \in StatsTickSteps : Tick(d, MaxTicks)
    \/ GetStatsOp

SpecStats == RedisCacheInit /\ [][StatsNext]_vars

------------------------------------------------------------------------------
(* SpecPhase: one ConversationStateManager classifying a conversation as its  *)
(* history grows, over every history of up to MaxHistory messages            *)

PhaseContents == {TxtHi, TxtHello, TxtProblem}

\* ConversationStateManager.update_conversation_state(conv, messages) on the
\* history of conv.
update_conversation_state(states, messages, conv) ==
    [states EXCEPT ![conv] = analyze_conversation_phase(messages[conv])]

\* A message is stored, by the user and the assistant in turn, and the
\* conversation is classified on the history read back.
GrowHistory(conv, content) ==
    /\ Len(db_messages[conv]) < MaxHistory
    /\ LET role == IF Len(db_messages[conv]) % 2 = 0 THEN "user" ELSE "assistant"
           msgs1 == create_message(db_messages, conv, role, content)
       IN /\ db_messages' = msgs1
          /\ conversation_states' = update_conversation_state(conversation_states, msgs1, conv)
    /\ UNCHANGED <<llm_calls, app_state, hash_calls, metrics_reader, now, ticks, cache_manager, redis_store, performance_monitor,
                   db_summaries, calls, last_op, scopes>>

\* The conversation is classified on the history as it stands.
Classify(conv) ==
    /\ conversation_states' = update_conversation_state(conversation_states, db_messages, conv)
    /\ UNCHANGED <<llm_calls, app_state, hash_calls, metrics_reader, now, ticks, cache_manager, redis_store, performance_monitor,
                   db_messages, db_summaries, calls, last_op, scopes>>

PhaseNext ==
    \/ \E content \in PhaseContents : GrowHistory(CadenceConv, content)
    \/ Classify(CadenceConv)

PhaseInit == InitWith(FALSE)

SpecPhase == PhaseInit /\ [][PhaseNext]_vars

------------------------------------------------------------------------------
(* SpecHash: a caller hashing two lists of message dicts, one after the other *)

HashRoles == {"user", "assistant"}

HashContents == {TxtHi}

\* The dicts holding a role and a content, written in either key order.
HashDicts ==
    {<<<<"role", r>>, <<"content", c>>>> : r \in HashRoles, c \in HashContents}
    \cup {<<<<"content", c>>, <<"role", r>>>> : r \in HashRoles, c \in HashContents}

HashTickSteps == {1}

HashInputs == UNION {[1..k -> HashDicts] : k \in 0..MaxHashLen}

\* create_messages_hash(dicts) called and its result noted.
HashCall(dicts) ==
    /\ hash_calls' = Append(hash_calls, [messages |-> dicts, at |-> now,
                                         result |-> hash_of_dicts(dicts)])
    /\ UNCHANGED <<llm_calls, app_state, now, ticks, cache_manager, redis_store, performance_monitor,
                   db_messages, db_summaries, conversation_states, calls, last_op,
                   scopes, metrics_reader>>

FirstHashCall(dicts) == hash_calls = << >> /\ HashCall(dicts)

LaterHashCall(dicts) == Len(hash_calls) = 1 /\ HashCall(dicts)

HashInit == InitWith(FALSE)

HashNext ==
    \/ \E dicts \in HashInputs : FirstHashCall(dicts)
    \/ \E dicts \in HashInputs : LaterHashCall(dicts)
    \/ \E d \in HashTickSteps : Tick(d, MaxTicks)

SpecHash == HashInit /\ [][HashNext]_vars

------------------------------------------------------------------------------
(* SpecMonitor: threads using one PerformanceMonitor through measure_request *)

MonitorTickSteps == {1}

\* async with measure_request(): entry
ScopeEnter(s) ==
    /\ scopes[s].pc = "new"
    /\ performance_monitor' = measure_enter(performance_monitor)
    /\ scopes' = [scopes EXCEPT ![s].pc = "body", ![s].start_time = now]
    /\ UNCHANGED <<llm_calls, app_state, hash_calls, metrics_reader, now, ticks, cache_manager, redis_store, db_messages, db_summaries,
                   conversation_states, calls, last_op>>

\* The body ends without an exception: the finally block.
ScopeExitNormal(s) ==
    /\ scopes[s].pc = "body"
    /\ performance_monitor' = measure_finally(performance_monitor, now - scopes[s].start_time)
    /\ scopes' = [scopes EXCEPT ![s].pc = "done", ![s].exit = "normal"]
    /\ UNCHANGED <<llm_calls, app_state, hash_calls, metrics_reader, now, ticks, cache_manager, redis_store, db_messages, db_summaries,
                   conversation_states, calls, last_op>>

\* The body raises an Exception: the except block.
ScopeRaise(s) ==
    /\ scopes[s].pc = "body"
    /\ performance_monitor' = measure_except(performance_monitor)
    /\ scopes' = [scopes EXCEPT ![s].pc = "raised"]
    /\ UNCHANGED <<llm_calls, app_state, hash_calls, metrics_reader, now, ticks, cache_manager, redis_store, db_messages, db_summaries,
                   conversation_states, calls, last_op>>

\* ... and then the finally block, before the exception leaves the scope.
ScopeExitError(s) ==
    /\ scopes[s].pc = "raised"
    /\ performance_monitor' = measure_finally(performance_monitor, now - scopes[s].start_time)
    /\ scopes' = [scopes EXCEPT ![s].pc = "done", ![s].exit = "error"]
    /\ UNCHANGED <<llm_calls, app_state, hash_calls, metrics_reader, now, ticks, cache_manager, redis_store, db_messages, db_summaries,
                   conversation_states, calls, last_op>>

\* The task is cancelled while the body is suspended.
ScopeCancel(s) ==
    /\ scopes[s].pc = "body"
    /\ performance_monitor' = measure_cancelled(performance_monitor, now - scopes[s].start_time)
    /\ scopes' = [scopes EXCEPT ![s].pc = "done", ![s].exit = "cancelled"]
    /\ UNCHANGED <<llm_calls, app_state, hash_calls, metrics_reader, now, ticks, cache_manager, redis_store, db_messages, db_summaries,
                   conversation_states, calls, last_op>>

MonitorInit == InitWith(FALSE)

MonitorNext ==
    \/ \E s \in ScopeIds : ScopeEnter(s)
    \/ \E s \in ScopeIds : ScopeExitNormal(s)
    \/ \E s \in ScopeIds : ScopeRaise(s)
    \/ \E s \in ScopeIds : ScopeExitError(s)
    \/ \E s \in ScopeIds : ScopeCancel(s)
    \/ \E d \in MonitorTickSteps : Tick(d, MaxTicks)

SpecMonitor == MonitorInit /\ [][MonitorNext]_vars

------------------------------------------------------------------------------
(* SpecLatency: requests measured by one PerformanceMonitor on one event loop, *)
(* and get_metrics called between their steps                                  *)

\* PerformanceMonitor.get_metrics; the call is kept with the list it copied.
GetMetrics ==
    /\ metrics_reader' =
           [NoReader EXCEPT !.pc = "reported",
                            !.response_times_list = performance_monitor.response_times,
                            !.metrics = get_metrics(performance_monitor, now)]
    /\ UNCHANGED <<llm_calls, app_state, now, ticks, cache_manager, redis_store, performance_monitor,
                   db_messages, db_summaries, conversation_states, calls, last_op,
                   scopes, hash_calls>>

LatencyNext ==
    \/ \E s \in ScopeIds : ScopeEnter(s)
    \/ \E s \in ScopeIds : ScopeExitNormal(s)
    \/ \E d \in MonitorTickSteps : Tick(d, MaxTicks)
    \/ GetMetrics

SpecLatency == MonitorInit /\ [][LatencyNext]_vars

------------------------------------------------------------------------------
(* SpecCounters: one CacheManager, with or without a Redis client, and one    *)
(* PerformanceMonitor in use together, the cache calls and the               *)
(* measure_request scopes in any interleaving, at one reading of the clock    *)

CountersInit == \E has_redis \in BOOLEAN : InitWith(has_redis)

CountersNext ==
    \/ \E s \in ScopeIds : ScopeEnter(s)
    \/ \E s \in ScopeIds : ScopeExitNormal(s)
    \/ \E s \in ScopeIds : ScopeRaise(s)
    \/ \E s \in ScopeIds : ScopeExitError(s)
    \/ \E s \in ScopeIds : ScopeCancel(s)
    \/ \E key \in CounterKeys, redis_raises \in BOOLEAN : CacheGetOp(key, redis_raises)
    \/ \E key \in CounterKeys, redis_raises \in BOOLEAN :
           CacheSetOp(key, RespOk, NoTtl, redis_raises)

SpecCounters == CountersInit /\ [][CountersNext]_vars

------------------------------------------------------------------------------
(* SpecMetrics: threads using one PerformanceMonitor through measure_request   *)
(* while another thread is inside get_metrics.  A block under self.lock is one *)
(* step; outside the lock every read of an attribute is a step of its own.    *)

\* The next step of get_metrics on the monitor pm: the copy of response_times under
\* the lock, then the entries of the metrics dict in the order they are written.
get_metrics_step(reader, pm) ==
    CASE reader.pc = "new" ->
             [reader EXCEPT !.pc = "total_requests",
                            !.response_times_list = pm.response_times,
                            !.seen = {pm}]
      [] reader.pc = "total_requests" ->
             [reader EXCEPT !.pc = "error_count", !.total_requests = pm.total_requests]
      [] reader.pc = "error_count" ->
             [reader EXCEPT !.pc = "rate_error_count", !.error_count = pm.error_count]
      [] reader.pc = "rate_error_count" ->
             [reader EXCEPT !.pc = "rate_total_requests",
                            !.rate_error_count = pm.error_count]
      [] reader.pc = "rate_total_requests" ->
             [reader EXCEPT !.pc = "concurrent_requests",
                            !.rate_total_requests = pm.total_requests]
      [] reader.pc = "concurrent_requests" ->
             [reader EXCEPT !.pc = "returned",
                            !.concurrent_requests = pm.concurrent_requests]
      [] OTHER -> reader

\* The states of the monitor since the get_metrics call began, pm being the newest.
Observed(reader, pm) ==
    IF reader.pc \in {"new", "returned"} THEN reader
    ELSE [reader EXCEPT !.seen = @ \cup {pm}]

\* The thread inside get_metrics takes its next step.
MetricsReaderStep ==
    /\ metrics_reader.pc # "returned"
    /\ metrics_reader' = get_metrics_step(metrics_reader, performance_monitor)
    /\ UNCHANGED <<llm_calls, app_state, now, ticks, cache_manager, redis_store, performance_monitor,
                   db_messages, db_summaries, conversation_states, calls, last_op,
                   scopes, hash_calls>>

\* A thread takes the step of measure_request it stands before: the entry block,
\* the except block, or the finally block.
ThreadStep(s, pc, pm, next_pc, exit) ==
    /\ scopes[s].pc = pc
    /\ performance_monitor' = pm
    /\ scopes' = [scopes EXCEPT ![s].pc = next_pc, ![s].exit = exit]
    /\ metrics_reader' = Observed(metrics_reader, pm)
    /\ UNCHANGED <<llm_calls, app_state, now, ticks, cache_manager, redis_store, db_messages, db_summaries,
                   conversation_states, calls, last_op, hash_calls>>

ThreadEnters(s) ==
    ThreadStep(s, "new", measure_enter(performance_monitor), "body", "none")

ThreadLeaves(s) ==
    ThreadStep(s, "body", measure_finally(performance_monitor, 0), "done", "normal")

ThreadRaises(s) ==
    ThreadStep(s, "body", measure_except(performance_monitor), "raised", "none")

ThreadLeavesRaising(s) ==
    ThreadStep(s, "raised", measure_finally(performance_monitor, 0), "done", "error")

MetricsInit == InitWith(FALSE)

MetricsNext ==
    \/ MetricsReaderStep
    \/ \E s \in ScopeIds : ThreadEnters(s)
    \/ \E s \in ScopeIds : ThreadLeaves(s)
    \/ \E s \in ScopeIds : ThreadRaises(s)
    \/ \E s \in ScopeIds : ThreadLeavesRaising(s)

SpecMetrics == MetricsInit /\ [][MetricsNext]_vars

------------------------------------------------------------------------------
(* Spec: process_message_enhanced calls on one event loop.  The code between *)
(* two awaits that suspend runs as one step; the only await that suspends is *)
(* llm_provider.generate_response.                                           *)

\* A program order in which the assistant message is persisted before
\* generate_response is awaited.
FaultStage_AssistantPersistedFirst(fault) ==
    CASE fault = "add_user" -> 1
      [] fault = "history" -> 2
      [] fault = "classify" -> 3
      [] fault = "count" -> 4
      [] fault = "add_summary" -> 5
      [] fault = "prepare" -> 6
      [] fault = "generate_summary" -> 4
      [] fault = "add_assistant" -> 8
      [] fault = "generate" -> 11
      [] OTHER -> 99

\* A program order in which the cache is written before the outcome of
\* generate_response is known.
FaultStage_CacheWrittenFirst(fault) ==
    CASE fault = "add_user" -> 1
      [] fault = "history" -> 2
      [] fault = "classify" -> 3
      [] fault = "count" -> 4
      [] fault = "add_summary" -> 5
      [] fault = "prepare" -> 6
      [] fault = "generate_summary" -> 4
      [] fault = "generate" -> 9
      [] fault = "add_assistant" -> 10
      [] OTHER -> 99

\* The steps of process_message_enhanced that can raise, in program order.
FaultStage(fault) ==
    CASE fault = "add_user" -> 1
      [] fault = "history" -> 2
      [] fault = "classify" -> 3
      [] fault = "count" -> 4
      [] fault = "add_summary" -> 5
      [] fault = "prepare" -> 6
      [] fault = "generate_summary" -> 4
      [] fault = "generate" -> 8
      [] fault = "add_assistant" -> 10
      [] OTHER -> 99

StartFaults == {"none", "add_user", "classify", "add_assistant"}

FinishFaults == {"none", "generate", "add_assistant"}

\* str(e) of the exception a failing step raises; the text process_message
\* returns for an input it rejects.
ErrorMessage(fault) ==
    IF fault = "invalid_input" THEN "Invalid input: message is empty or too long"
    ELSE fault

\* MessageProcessor.validate_input
validate_input(user_input) ==
    /\ ~(user_input.len = 0 \/ user_input.blank)
    /\ ~(user_input.len > max_input_length)

\* The exception classes the except clause of process_message_enhanced catches.
CaughtClasses == {"Exception"}

\* A handler that logs the exception and raises it again.
handle_exception_reraise(call, cls, msg) ==
    [call EXCEPT !.pc = "raised", !.raised = msg,
                 !.start_time = 0, !.llm_messages = << >>, !.msg_count = 0]

\* except Exception as e: return {'success': False, 'error': str(e), ...}; an
\* exception of another class leaves the coroutine.
handle_exception(call, cls, msg) ==
    IF cls \in CaughtClasses
    THEN [call EXCEPT !.pc = "returned", !.success = FALSE, !.error = msg,
                      !.start_time = 0, !.llm_messages = << >>, !.msg_count = 0]
    ELSE [call EXCEPT !.pc = "raised", !.raised = msg,
                      !.start_time = 0, !.llm_messages = << >>, !.msg_count = 0]

\* A return statement that reports the length of the history as it was loaded.
return_success_loaded_count(call, response) ==
    [call EXCEPT !.pc = "returned", !.success = TRUE, !.response = response,
                 !.message_count = call.msg_count,
                 !.start_time = 0, !.llm_messages = << >>, !.msg_count = 0]

\* The return statement of process_message_enhanced.
return_success(call, response) ==
    [call EXCEPT !.pc = "returned", !.success = TRUE, !.response = response,
                 !.message_count = call.msg_count + 1,
                 !.start_time = 0, !.llm_messages = << >>, !.msg_count = 0]

\* A scope that counts a call returning a failure result as an error.
scope_exit_counting_failures(pm, call, duration) ==
    IF call.pc = "raised" \/ ~call.success
    THEN measure_finally(measure_except(pm), duration)
    ELSE measure_finally(pm, duration)

\* Leaving the measure_request scope around the body of process_message_enhanced.
scope_exit(pm, call, duration) ==
    IF call.pc = "raised" THEN measure_finally(measure_except(pm), duration)
    ELSE measure_finally(pm, duration)

\* The calls cs after call i has started on conv: i and every call suspended on
\* the same conversation are noted as overlapping.
NoteOverlap(cs, i, conv) ==
    LET others == {j \in CallIds \ {i} : cs[j].pc = "generating" /\ cs[j].conv = conv}
    IN [j \in CallIds |->
           IF j \in others \/ (j = i /\ others # {})
           THEN [cs[j] EXCEPT !.overlapped = TRUE]
           ELSE cs[j]]

\* process_message_enhanced from its start to its first suspension or to its
\* return, as call i.
RunToFirstAwait(i, conv, user_input, fault, redis_raises) ==
    /\ ~cache_manager.redis_client => ~redis_raises
    /\ LET stage == FaultStage(fault)
           msgs1 == IF stage > 1 THEN create_message(db_messages, conv, "user", user_input)
                    ELSE db_messages
           messages == msgs1[conv]
           phase == analyze_conversation_phase(messages)
           states1 == IF stage > 3 THEN [conversation_states EXCEPT ![conv] = phase]
                      ELSE conversation_states
           fires == /\ stage > 4
                    /\ should_summarize(msgs1, conv)
                    /\ get_messages_for_summarization(msgs1, conv) # << >>
           sums1 == IF fires /\ stage > 5
                    THEN create_summary(db_summaries, conv, SummaryText)
                    ELSE db_summaries
           context == prepare_context_for_llm(msgs1, sums1, conv)
           llm_messages == BuildLlmMessages(phase, context)
           key == ResponseKey(create_messages_hash(llm_messages))
           got == CacheGet(cache_manager, redis_store, key, now, redis_raises)
           cm1 == IF stage > 6 THEN got.cm ELSE cache_manager
           hit == stage > 6 /\ Truthy(got.ret)
           msgs2 == IF hit /\ stage > 10
                    THEN create_message(msgs1, conv, "assistant", got.ret)
                    ELSE msgs1
           call1 == [NoCall EXCEPT
                       !.kind = "enhanced",
                       !.conv = conv, !.input = user_input, !.start_time = now,
                       !.fault = fault,
                       !.msg_count = IF stage > 2 THEN Len(messages) ELSE 0,
                       !.history_last = IF stage > 2 THEN messages[Len(messages)] ELSE None,
                       !.phase = IF stage > 3 THEN phase ELSE "",
                       !.summary_created = fires /\ stage > 5,
                       !.summary_persisted = fires /\ stage > 5,
                       !.llm_messages = IF stage > 6 THEN llm_messages ELSE << >>,
                       !.n_cache_get = IF stage > 6 THEN 1 ELSE 0,
                       !.prompt = IF stage > 6 THEN llm_messages ELSE << >>,
                       !.key = IF stage > 6 THEN key ELSE << >>,
                       !.cache_hit = stage > 6 /\ got.cm.cache_hits > cache_manager.cache_hits,
                       !.cached = IF stage > 6 THEN got.ret ELSE None,
                       !.redis_get_raised = stage > 6 /\ redis_raises,
                       !.n_create_message = (IF stage > 1 THEN 1 ELSE 0)
                                            + (IF hit /\ stage > 10 THEN 1 ELSE 0)]
           call2 == IF stage <= 6 \/ (hit /\ stage <= 10)
                    THEN handle_exception(call1, "Exception", ErrorMessage(fault))
                    ELSE IF hit THEN return_success(call1, got.ret)
                    ELSE [call1 EXCEPT !.pc = "generating", !.n_generate = 1]
       IN
        /\ fault = "add_summary" =>
               /\ should_summarize(msgs1, conv)
               /\ get_messages_for_summarization(msgs1, conv) # << >>
        /\ fault = "add_assistant" => Truthy(got.ret)
        /\ db_messages' = msgs2
        /\ db_summaries' = sums1
        /\ conversation_states' = states1
        /\ cache_manager' = cm1
        /\ calls' = NoteOverlap([calls EXCEPT ![i] = call2], i, conv)
        /\ performance_monitor' =
               IF call2.pc = "generating" THEN measure_enter(performance_monitor)
               ELSE scope_exit(measure_enter(performance_monitor), call2, 0)
    /\ UNCHANGED <<llm_calls, app_state, hash_calls, metrics_reader, now, ticks, redis_store, last_op, scopes>>

\* A new call starts while earlier ones may still be suspended.
StartCall(i, conv, user_input, fault, redis_raises) ==
    /\ calls[i].pc = "new"
    /\ \A j \in CallIds : j < i => calls[j].pc # "new" /\ calls[j].kind = "enhanced"
    /\ RunToFirstAwait(i, conv, user_input, fault, redis_raises)

\* generate_response returns or raises, and process_message_enhanced runs on to
\* its return.
FinishCall(i, response, fault, redis_raises) ==
    /\ calls[i].pc = "generating"
    /\ calls[i].kind = "enhanced"
    /\ ~cache_manager.redis_client => ~redis_raises
    /\ fault = "generate" => response = RespOk /\ ~redis_raises
    /\ LET stage == FaultStage(fault)
           call == calls[i]
           key == ResponseKey(create_messages_hash(call.llm_messages))
           put == CacheSet(cache_manager, redis_store, key, response, Ttl(response_ttl),
                           now, redis_raises)
           call1 == [call EXCEPT
                       !.fault = fault,
                       !.n_cache_set = IF stage > 8 THEN 1 ELSE 0,
                       !.set_at = IF stage > 8 THEN now ELSE 0,
                       !.redis_set_raised = stage > 8 /\ redis_raises,
                       !.set_ok = stage > 8 /\ put.ret,
                       !.n_create_message = @ + (IF stage > 10 THEN 1 ELSE 0)]
           call2 == IF stage <= 10
                    THEN handle_exception(call1, "Exception", ErrorMessage(fault))
                    ELSE return_success(call1, response)
       IN
        /\ cache_manager' = IF stage > 8 THEN put.cm ELSE cache_manager
        /\ redis_store' = IF stage > 8 THEN put.store ELSE redis_store
        /\ db_messages' = IF stage > 10
                          THEN create_message(db_messages, call.conv, "assistant", response)
                          ELSE db_messages
        /\ calls' = [calls EXCEPT ![i] = call2]
        /\ performance_monitor' =
               scope_exit(performance_monitor, call2, now - call.start_time)
    /\ UNCHANGED <<llm_calls, app_state, hash_calls, metrics_reader, now, ticks, db_summaries, conversation_states, last_op, scopes>>

\* The task running process_message_enhanced is cancelled while it awaits
\* generate_response: CancelledError passes the except Exception clause.
CancelCall(i) ==
    /\ calls[i].pc = "generating"
    /\ calls[i].kind = "enhanced"
    /\ calls' = [calls EXCEPT ![i].pc = "cancelled", ![i].start_time = 0,
                              ![i].llm_messages = << >>, ![i].msg_count = 0]
    /\ performance_monitor' =
           measure_cancelled(performance_monitor, now - calls[i].start_time)
    /\ UNCHANGED <<llm_calls, app_state, hash_calls, metrics_reader, now, ticks, cache_manager, redis_store, db_messages, db_summaries,
                   conversation_states, last_op, scopes>>

------------------------------------------------------------------------------
(* MessageProcessor.process_message, the pipeline of the basic ChatbotEngine: *)
(* no cache, no monitor; it awaits generate_response for the summary and for  *)
(* the answer                                                                 *)

BasicStartFaults == {"none", "add_user", "prepare"}

BasicSummaryFaults == {"none", "generate_summary", "add_summary", "prepare"}

\* llm_messages of process_message
BuildBasicLlmMessages(context) ==
    <<[role |-> "system", content |-> generate_system_prompt(context.latest_summary)]>>
    \o context.message_history

\* process_message from its start to its first suspension or to its return.
BasicRunToFirstAwait(i, conv, user_input, fault) ==
    LET stage == FaultStage(fault)
        valid == validate_input(user_input)
        persisted == valid /\ stage > 1
        msgs1 == IF persisted THEN create_message(db_messages, conv, "user", user_input)
                 ELSE db_messages
        fires == /\ persisted
                 /\ should_summarize(msgs1, conv)
                 /\ get_messages_for_summarization(msgs1, conv) # << >>
        call1 == [NoCall EXCEPT
                    !.kind = "basic", !.conv = conv, !.input = user_input,
                    !.fault = IF valid THEN fault ELSE "invalid_input",
                    !.n_create_message = IF persisted THEN 1 ELSE 0]
        call2 == IF ~valid
                 THEN [call1 EXCEPT !.pc = "returned", !.success = FALSE,
                                    !.error = ErrorMessage("invalid_input")]
                 ELSE IF stage <= 1 \/ (~fires /\ stage <= 6)
                 THEN handle_exception(call1, "Exception", ErrorMessage(fault))
                 ELSE IF fires THEN [call1 EXCEPT !.pc = "summarizing", !.n_generate = 1]
                 ELSE [call1 EXCEPT
                         !.pc = "generating", !.n_generate = 1,
                         !.llm_messages = BuildBasicLlmMessages(
                             prepare_context_for_llm(msgs1, db_summaries, conv))]
    IN
     /\ ~valid => fault = "none"
     /\ fires => fault \in {"none", "add_user"}
     /\ db_messages' = msgs1
     /\ calls' = [calls EXCEPT ![i] = call2]
     /\ UNCHANGED <<llm_calls, app_state, hash_calls, metrics_reader, now, ticks, cache_manager, redis_store, performance_monitor,
                    db_summaries, conversation_states, last_op, scopes>>

\* A new process_message call starts while earlier ones may still be suspended.
BasicStart(i, conv, user_input, fault) ==
    /\ calls[i].pc = "new"
    /\ \A j \in CallIds : j < i => calls[j].pc # "new" /\ calls[j].kind = "basic"
    /\ BasicRunToFirstAwait(i, conv, user_input, fault)

\* generate_summary returns or raises; process_message stores the summary, builds
\* the prompt and awaits generate_response for the answer.
BasicSummaryDone(i, summary_text, fault) ==
    /\ calls[i].pc = "summarizing"
    /\ calls[i].kind = "basic"
    /\ LET stage == FaultStage(fault)
           call1 == [calls[i] EXCEPT !.fault = fault, !.summary_persisted = stage > 5]
           sums1 == IF stage > 5
                    THEN create_summary(db_summaries, calls[i].conv, summary_text)
                    ELSE db_summaries
       IN
        /\ db_summaries' = sums1
        /\ calls' = [calls EXCEPT ![i] =
                        IF fault = "none"
                        THEN [call1 EXCEPT
                                !.pc = "generating", !.n_generate = @ + 1,
                                !.llm_messages = BuildBasicLlmMessages(
                                    prepare_context_for_llm(db_messages, sums1,
                                                            calls[i].conv))]
                        ELSE handle_exception(call1, "Exception", ErrorMessage(fault))]
    /\ UNCHANGED <<llm_calls, app_state, hash_calls, metrics_reader, now, ticks, cache_manager, redis_store, performance_monitor,
                   db_messages, conversation_states, last_op, scopes>>

\* generate_response returns or raises, and process_message runs on to its return:
\* summary_created is the literal False, message_count the length of the history
\* read again.
BasicFinish(i, response, fault) ==
    /\ calls[i].pc = "generating"
    /\ calls[i].kind = "basic"
    /\ fault = "generate" => response = RespOk
    /\ LET stage == FaultStage(fault)
           call == calls[i]
           msgs1 == IF stage > 10
                    THEN create_message(db_messages, call.conv, "assistant", response)
                    ELSE db_messages
           call1 == [call EXCEPT
                       !.fault = fault,
                       !.n_create_message = @ + (IF stage > 10 THEN 1 ELSE 0)]
       IN
        /\ db_messages' = msgs1
        /\ calls' = [calls EXCEPT ![i] =
                        IF stage <= 10
                        THEN handle_exception(call1, "Exception", ErrorMessage(fault))
                        ELSE [call1 EXCEPT !.pc = "returned", !.success = TRUE,
                                           !.response = response,
                                           !.llm_messages = << >>,
                                           !.summary_created = FALSE,
                                           !.message_count = Len(msgs1[call.conv])]]
    /\ UNCHANGED <<llm_calls, app_state, hash_calls, metrics_reader, now, ticks, cache_manager, redis_store, performance_monitor,
                   db_summaries, conversation_states, last_op, scopes>>

\* Turns of one conversation through process_message, each after the one before
\* has returned; a turn whose generation fails leaves its user message unanswered.
BasicTurn ==
    /\ calls[1].pc \in {"new", "returned"}
    /\ Len(db_messages[CadenceConv]) < 2 * MaxCadenceCalls
    /\ BasicRunToFirstAwait(1, CadenceConv, TxtHi, "none")

BasicNext ==
    \/ BasicTurn
    \/ \E fault \in BasicSummaryFaults : BasicSummaryDone(1, SummaryText, fault)
    \/ \E fault \in {"none", "generate"} : BasicFinish(1, RespOk, fault)

------------------------------------------------------------------------------
(* Spec: the calls one process serves, through the enhanced engine or, when   *)
(* main.py fell back to it, through the basic one                             *)

Inputs == {TxtHi, TxtOver}

Responses == {RespOk, RespEmpty}

TickSteps == {response_ttl}

\* The calls are followed for one ttl of a cached response: long enough for an
\* entry to be served and to expire.
Horizon == response_ttl

Init == InitWith(FALSE)

Next ==
    \/ \E i \in CallIds, conv \in Convs, user_input \in Inputs, fault \in StartFaults,
          redis_raises \in BOOLEAN : StartCall(i, conv, user_input, fault, redis_raises)
    \/ \E i \in CallIds, response \in Responses, fault \in FinishFaults,
          redis_raises \in BOOLEAN : FinishCall(i, response, fault, redis_raises)
    \/ \E i \in CallIds : CancelCall(i)
    \/ \E i \in CallIds, conv \in Convs, user_input \in Inputs, fault \in BasicStartFaults :
           BasicStart(i, conv, user_input, fault)
    \/ \E i \in CallIds, response \in Responses, fault \in FinishFaults :
           BasicFinish(i, response, fault)
    \/ \E d \in TickSteps : now + d <= Horizon /\ Tick(d, MaxTicks)

Spec == Init /\ [][Next]_vars

\* The enhanced engine constructed with a redis_url: every cache call goes to
\* Redis, and may raise there.
RedisInit == InitWith(RedisClientAfterInit(TRUE, "connected"))

RedisStartFaults == {"none", "add_assistant"}

RedisNext ==
    \/ \E i \in CallIds, conv \in Convs, fault \in RedisStartFaults, redis_raises \in BOOLEAN :
           StartCall(i, conv, TxtHi, fault, redis_raises)
    \/ \E i \in CallIds, response \in Responses, fault \in FinishFaults,
          redis_raises \in BOOLEAN : FinishCall(i, response, fault, redis_raises)
    \/ \E i \in CallIds : CancelCall(i)
    \/ \E d \in TickSteps : now + d <= Horizon /\ Tick(d, MaxTicks)

SpecRedis == RedisInit /\ [][RedisNext]_vars

------------------------------------------------------------------------------
(* SpecPrompt: a conversation with rows already in its tables, for which one  *)
(* process_message_enhanced call builds its prompt                            *)

StoredRoles == {"user", "system"}

StoredContents == {TxtHi, TxtHalfBudget, TxtFullBudget, TxtOverBudget}

SummaryTexts == {SummaryText, TxtOverBudget, TxtEmpty}

PromptInputs == {TxtHi, TxtOverBudget}

\* crud.create_message: a row of the conversation written before the call.
StoreMessage(conv, role, content) ==
    /\ calls[1].pc = "new"
    /\ Len(db_messages[conv]) < MaxStored
    /\ db_messages' = create_message(db_messages, conv, role, content)
    /\ UNCHANGED <<llm_calls, app_state, hash_calls, metrics_reader, now, ticks, cache_manager, redis_store, performance_monitor,
                   db_summaries, conversation_states, calls, last_op, scopes>>

\* crud.create_summary: a summary of the conversation written before the call.
StoreSummary(conv, text) ==
    /\ calls[1].pc = "new"
    /\ Len(db_summaries[conv]) < MaxSummaries
    /\ db_summaries' = create_summary(db_summaries, conv, text)
    /\ UNCHANGED <<llm_calls, app_state, hash_calls, metrics_reader, now, ticks, cache_manager, redis_store, performance_monitor,
                   db_messages, conversation_states, calls, last_op, scopes>>

\* The call: it runs to its await of generate_response, the prompt in hand.
BuildPrompt(conv, user_input) ==
    /\ calls[1].pc = "new"
    /\ RunToFirstAwait(1, conv, user_input, "none", FALSE)

PromptNext ==
    \/ \E role \in StoredRoles, content \in StoredContents :
           StoreMessage(CadenceConv, role, content)
    \/ \E text \in SummaryTexts : StoreSummary(CadenceConv, text)
    \/ \E user_input \in PromptInputs : BuildPrompt(CadenceConv, user_input)

SpecPrompt == Init /\ [][PromptNext]_vars

\* The same with inputs as long as POST /chat lets them be, and longer ones as a
\* direct caller of the engine can pass them; no summaries.
IngressInputs == {TxtHi, TxtIngressMax, TxtOverBudget}

IngressNext ==
    \/ \E role \in StoredRoles, content \in StoredContents :
           StoreMessage(CadenceConv, role, content)
    \/ \E user_input \in IngressInputs : BuildPrompt(CadenceConv, user_input)

SpecIngress == Init /\ [][IngressNext]_vars

------------------------------------------------------------------------------
(* SpecCadence: one client talking in one conversation, turn after turn, each *)
(* call made after the one before has returned, nothing failing               *)

\* The client sends its next message once the last call has returned.
NextTurn ==
    /\ calls[1].pc \in {"new", "returned"}
    /\ Len(db_messages[CadenceConv]) < 2 * MaxCadenceCalls
    /\ RunToFirstAwait(1, CadenceConv, TxtHi, "none", FALSE)

\* generate_response answers.
TurnAnswered == FinishCall(1, RespOk, "none", FALSE)

CadenceNext ==
    \/ NextTurn
    \/ TurnAnswered
    \/ \E d \in TickSteps : Tick(d, MaxTicks)

SpecCadence == Init /\ [][CadenceNext]_vars

\* The same through the basic pipeline.
SpecBasic == Init /\ [][BasicNext]_vars

------------------------------------------------------------------------------
(* SpecSummarize: one client talking in one conversation through the enhanced  *)
(* engine, turn after turn; a turn whose generation fails leaves its user      *)
(* message unanswered, and a system row may be written to the conversation     *)
(* between turns                                                               *)

\* The rows of the conversation with the given role.
RowsOfRole(role) == SelectSeq(db_messages[CadenceConv], LAMBDA m : m.role = role)

\* generate_response raises: the user message of the turn stays unanswered.
TurnFails ==
    /\ Len(RowsOfRole("user")) - Len(RowsOfRole("assistant")) <= MaxFailedTurns
    /\ FinishCall(1, RespOk, "generate", FALSE)

\* crud.create_message with role 'system', between two turns.
StoreSystemRow ==
    /\ calls[1].pc \in {"new", "returned"}
    /\ Len(RowsOfRole("system")) < MaxSystemRows
    /\ db_messages' = create_message(db_messages, CadenceConv, "system", TxtHello)
    /\ UNCHANGED <<llm_calls, app_state, now, ticks, cache_manager, redis_store, performance_monitor,
                   db_summaries, conversation_states, calls, last_op, scopes, hash_calls,
                   metrics_reader>>

SummarizeNext ==
    \/ NextTurn
    \/ TurnAnswered
    \/ TurnFails
    \/ StoreSystemRow

SpecSummarize == Init /\ [][SummarizeNext]_vars

------------------------------------------------------------------------------
(* SpecPhaseCalls: one client talking in one conversation through the enhanced *)
(* engine, with and without keywords in what it says, up to MaxHistory         *)
(* messages                                                                    *)

PhaseInputs == {TxtHi, TxtProblem, TxtMax}

\* The client sends its next message once the last call has returned.
PhaseTurn(user_input) ==
    /\ calls[1].pc \in {"new", "returned"}
    /\ Len(db_messages[CadenceConv]) < MaxHistory
    /\ RunToFirstAwait(1, CadenceConv, user_input, "none", FALSE)

\* generate_response answers or raises.
PhaseTurnEnds(fault) == FinishCall(1, RespOk, fault, FALSE)

PhaseCallsNext ==
    \/ \E user_input \in PhaseInputs : PhaseTurn(user_input)
    \/ \E fault \in {"none", "generate"} : PhaseTurnEnds(fault)

SpecPhaseCalls == Init /\ [][PhaseCallsNext]_vars

------------------------------------------------------------------------------
(* SpecRace: two clients talking in the same conversation through the          *)
(* enhanced engine, each sending its next message once its last call has       *)
(* returned, the calls of the two overlapping in any way                       *)

RaceClients == {1, 2}

\* Client i sends its next message.  The clients being alike, the first is the one
\* to send when neither has a call under way.
RaceTurn(i) ==
    /\ calls[i].pc \in {"new", "returned"}
    /\ i # 1 => calls[1].pc = "generating"
    /\ Len(db_messages[CadenceConv]) < 2 * MaxCadenceCalls
    /\ RunToFirstAwait(i, CadenceConv, TxtHi, "none", FALSE)

\* generate_response answers the call of client i.
RaceAnswered(i) == FinishCall(i, RespOk, "none", FALSE)

RaceNext ==
    \/ \E i \in RaceClients : RaceTurn(i)
    \/ \E i \in RaceClients : RaceAnswered(i)

SpecRace == Init /\ [][RaceNext]_vars

------------------------------------------------------------------------------
(* SpecProvider: OpenAIProvider.generate_response called by one caller, one    *)
(* call after the other.  client.chat.completions.create answers each attempt  *)
(* with a completion, a RateLimitError, another APIError or another exception. *)

ProviderOutcomeKinds == {"ok", "rate_limit", "api_error", "other"}

\* What create can answer: a completion with its content, or an exception.
ProviderOutcomes ==
    {[kind |-> "ok", content |-> c] : c \in {RespOk, RespEmpty}}
      \cup {[kind |-> k, content |-> None] : k \in ProviderOutcomeKinds \ {"ok"}}

\* The class of the exception create raises.
RaisedClass(kind) ==
    CASE kind = "rate_limit" -> "RateLimitError"
      [] kind = "api_error" -> "APIError"
      [] OTHER -> "Exception"

NewProviderCall ==
    [pc |-> "calling", attempt |-> 0, outcomes |-> << >>, sleeps |-> << >>,
     result |-> None, raised |-> ""]

\* A loop body that backs off and retries after any APIError.
generate_response_retry_api_errors(call, outcome) ==
    LET call1 == [call EXCEPT !.outcomes = Append(@, outcome)]
    IN IF outcome.kind = "ok"
       THEN [call1 EXCEPT !.pc = "returned", !.result = outcome.content]
       ELSE IF outcome.kind \in {"rate_limit", "api_error"} /\ call.attempt < max_retries - 1
       THEN [call1 EXCEPT !.pc = "sleeping", !.sleeps = Append(@, (2 ^ call.attempt) * 2)]
       ELSE [call1 EXCEPT !.pc = "raised", !.raised = RaisedClass(outcome.kind)]

\* One pass of the loop body of generate_response, create answering with outcome:
\* return the content, or back off before the next attempt, or raise.
generate_response_attempt(call, outcome) ==
    LET call1 == [call EXCEPT !.outcomes = Append(@, outcome)]
    IN IF outcome.kind = "ok"
       THEN [call1 EXCEPT !.pc = "returned", !.result = outcome.content]
       ELSE IF outcome.kind = "rate_limit" /\ call.attempt < max_retries - 1
       THEN [call1 EXCEPT !.pc = "sleeping", !.sleeps = Append(@, (2 ^ call.attempt) * 2)]
       ELSE [call1 EXCEPT !.pc = "raised", !.raised = RaisedClass(outcome.kind)]

ProviderUnchanged ==
    UNCHANGED <<app_state, ticks, cache_manager, redis_store, performance_monitor,
                db_messages, db_summaries, conversation_states, calls, last_op,
                scopes, hash_calls, metrics_reader>>

\* generate_response is called, the call before it being over.
ProviderCallStarts ==
    /\ Len(llm_calls) < MaxProviderCalls
    /\ llm_calls # << >> => llm_calls[Len(llm_calls)].pc \in {"returned", "raised"}
    /\ llm_calls' = Append(llm_calls, NewProviderCall)
    /\ UNCHANGED now
    /\ ProviderUnchanged

\* create answers the attempt under way.
ProviderAnswers(outcome) ==
    /\ llm_calls # << >>
    /\ llm_calls[Len(llm_calls)].pc = "calling"
    /\ llm_calls' = [llm_calls EXCEPT ![Len(llm_calls)] = generate_response_attempt(@, outcome)]
    /\ UNCHANGED now
    /\ ProviderUnchanged

\* asyncio.sleep(wait_time) is over: the loop goes on to the next attempt.
ProviderWakes ==
    /\ llm_calls # << >>
    /\ llm_calls[Len(llm_calls)].pc = "sleeping"
    /\ LET call == llm_calls[Len(llm_calls)]
       IN /\ llm_calls' = [llm_calls EXCEPT ![Len(llm_calls)] =
                               [call EXCEPT !.pc = "calling", !.attempt = @ + 1]]
          /\ now' = now + call.sleeps[Len(call.sleeps)]
    /\ ProviderUnchanged

ProviderInit == InitWith(FALSE)

ProviderNext ==
    \/ ProviderCallStarts
    \/ \E outcome \in ProviderOutcomes : ProviderAnswers(outcome)
    \/ ProviderWakes

\* create comes back from every attempt (the client has a request timeout) and
\* every sleep ends.
SpecProvider ==
    /\ ProviderInit
    /\ [][ProviderNext]_vars
    /\ WF_vars(\E outcome \in ProviderOutcomes : ProviderAnswers(outcome))
    /\ WF_vars(ProviderWakes)

------------------------------------------------------------------------------
(* SpecHealth: main.py serving GET /health before and after the engine has been *)
(* initialized by a first chat request                                          *)

\* How the engine part of health_check can go for a ProductionChatbotEngine:
\* run_comprehensive_health_check returns with the provider healthy, returns with
\* the provider in error, or raises.
EngineChecks == {"llm_healthy", "llm_error", "raises"}

\* An initialize_engine that leaves engine_initialized False when the fallback
\* fails too, so that the next call tries again.
initialize_engine_retrying(app, primary_raises, fallback_raises) ==
    IF app.engine_initialized THEN [app EXCEPT !.init_calls = @ + 1]
    ELSE IF app.api_key /\ ~primary_raises
    THEN [app EXCEPT !.init_calls = @ + 1, !.constructions = @ + 1,
                     !.production_engine = IF app.advanced_features_available
                                           THEN "production" ELSE "basic",
                     !.engine_initialized = TRUE, !.engine_init_error = ""]
    ELSE IF ~fallback_raises
    THEN [app EXCEPT !.init_calls = @ + 1,
                     !.constructions = @ + (IF app.api_key THEN 2 ELSE 1),
                     !.production_engine = "basic",
                     !.engine_initialized = TRUE, !.engine_init_error = ""]
    ELSE [app EXCEPT !.init_calls = @ + 1,
                     !.constructions = @ + (IF app.api_key THEN 2 ELSE 1),
                     !.production_engine = "None",
                     !.engine_init_error = "fallback"]

\* initialize_engine: nothing when already attempted; else the engine the
\* configuration asks for, on any exception the basic engine as a fallback, and
\* None when that fails too.  Without an API key the first attempt raises before
\* it constructs anything.
initialize_engine(app, primary_raises, fallback_raises) ==
    IF app.engine_initialized THEN [app EXCEPT !.init_calls = @ + 1]
    ELSE IF app.api_key /\ ~primary_raises
    THEN [app EXCEPT !.init_calls = @ + 1, !.constructions = @ + 1,
                     !.production_engine = IF app.advanced_features_available
                                           THEN "production" ELSE "basic",
                     !.engine_initialized = TRUE, !.engine_init_error = ""]
    ELSE IF ~fallback_raises
    THEN [app EXCEPT !.init_calls = @ + 1,
                     !.constructions = @ + (IF app.api_key THEN 2 ELSE 1),
                     !.production_engine = "basic",
                     !.engine_initialized = TRUE, !.engine_init_error = ""]
    ELSE [app EXCEPT !.init_calls = @ + 1,
                     !.constructions = @ + (IF app.api_key THEN 2 ELSE 1),
                     !.production_engine = "None",
                     !.engine_initialized = TRUE, !.engine_init_error = "fallback"]

\* get_engine: the engine initialize_engine returns, or HTTPException(503) when it
\* returns None.
get_engine(app, primary_raises, fallback_raises) ==
    LET app1 == initialize_engine(app, primary_raises, fallback_raises)
    IN [app1 EXCEPT !.returned_engine = app1.production_engine,
                    !.get_engine_status = IF app1.production_engine = "None" THEN 503
                                          ELSE 200]

\* A health check that does not ask for an engine.
health_check_engine_optional(app, db_ok, engine_check, raises) ==
    IF raises
    THEN [NoAnswer EXCEPT !.status_code = 503, !.overall_status = "error"]
    ELSE LET status1 == IF db_ok THEN "healthy" ELSE "degraded"
             status3 == IF app.api_key THEN status1 ELSE "degraded"
         IN [NoAnswer EXCEPT
               !.database = IF db_ok THEN "healthy" ELSE "error",
               !.engine = "healthy",
               !.openai_api = IF app.api_key THEN "configured" ELSE "not_configured",
               !.overall_status = status3,
               !.status_code = IF status3 = "healthy" THEN 200 ELSE 503]

\* health_check: the answer to GET /health.  db_ok says whether SELECT 1 succeeds,
\* engine_check how the engine's own check goes, raises whether a statement outside
\* the inner try blocks raises.
health_check(app, db_ok, engine_check, raises) ==
    IF raises
    THEN [NoAnswer EXCEPT !.status_code = 503, !.overall_status = "error"]
    ELSE LET status1 == IF db_ok THEN "healthy" ELSE "degraded"
             status2 == IF app.production_engine # "None" THEN status1 ELSE "degraded"
             status3 == IF app.api_key THEN status2 ELSE "degraded"
         IN [NoAnswer EXCEPT
               !.database = IF db_ok THEN "healthy" ELSE "error",
               !.engine = IF app.production_engine = "None" THEN "not_initialized"
                          ELSE IF app.production_engine = "basic" THEN "healthy"
                          ELSE IF engine_check = "raises" THEN "error"
                          ELSE engine_check,
               !.openai_api = IF app.api_key THEN "configured" ELSE "not_configured",
               !.overall_status = status3,
               !.status_code = IF status3 = "healthy" THEN 200 ELSE 503]

\* A chat request arrives: get_engine calls initialize_engine.
InitializeEngine(primary_raises, fallback_raises) ==
    /\ app_state.init_calls < MaxInitCalls
    /\ ~app_state.api_key => fallback_raises
    /\ app_state' = get_engine(app_state, primary_raises, fallback_raises)
    /\ UNCHANGED <<llm_calls, now, ticks, cache_manager, redis_store, performance_monitor,
                   db_messages, db_summaries, conversation_states, calls, last_op,
                   scopes, hash_calls, metrics_reader>>

\* GET /health
HealthCheck(db_ok, engine_check, raises) ==
    /\ app_state' =
           [app_state EXCEPT !.health =
               [health_check(app_state, db_ok, engine_check, raises) EXCEPT
                   !.db_ok = db_ok, !.engine_check = engine_check, !.raised = raises,
                   !.production_engine = app_state.production_engine,
                   !.engine_initialized = app_state.engine_initialized]]
    /\ UNCHANGED <<llm_calls, now, ticks, cache_manager, redis_store, performance_monitor,
                   db_messages, db_summaries, conversation_states, calls, last_op,
                   scopes, hash_calls, metrics_reader>>

HealthInit ==
    \E api_key \in BOOLEAN, advanced_features_available \in BOOLEAN :
        InitApp(FALSE, api_key, advanced_features_available)

HealthNext ==
    \/ \E primary_raises \in BOOLEAN, fallback_raises \in BOOLEAN :
           InitializeEngine(primary_raises, fallback_raises)
    \/ \E db_ok \in BOOLEAN, engine_check \in EngineChecks, raises \in BOOLEAN :
           HealthCheck(db_ok, engine_check, raises)

SpecHealth == HealthInit /\ [][HealthNext]_vars

------------------------------------------------------------------------------
(* Properties of OpenAIProvider.generate_response, checked under SpecProvider *)

ProviderCallOver(call) == call.pc \in {"returned", "raised"}

\* What the claim says of one call, as far as it has come.
BoundedRetries(call) ==
    LET n == Len(call.outcomes)
        backoffs == IF ProviderCallOver(call) THEN n - 1 ELSE n
    IN /\ n <= 3
       /\ call.pc = "calling" => n < 3
       /\ \A k \in 1..(n - 1) : call.outcomes[k].kind = "rate_limit"
       /\ call.pc = "sleeping" => n > 0 /\ call.outcomes[n].kind = "rate_limit"
       /\ call.sleeps = SubSeq(<<2, 4>>, 1, backoffs)
       /\ call.pc = "returned" =>
             /\ call.outcomes[n].kind = "ok"
             /\ call.result = call.outcomes[n].content
       /\ call.pc = "raised" =>
             \/ /\ call.outcomes[n].kind = "rate_limit"
                /\ n = 3
                /\ call.raised = "RateLimitError"
             \/ /\ call.outcomes[n].kind = "api_error"
                /\ call.raised = "APIError"
             \/ /\ call.outcomes[n].kind = "other"
                /\ call.raised = "Exception"
       /\ n > 0 /\ call.outcomes[n].kind # "rate_limit" => ProviderCallOver(call)

\* C31: generate_response makes at most 3 attempts; it makes another attempt only
\* after a RateLimitError, having slept 2 s after the first and 4 s after the
\* second; the third RateLimitError in a row is raised to the caller; any other
\* exception is raised at once; the first completion is returned; and every call
\* comes to its end.
C31_BoundedRetries ==
    /\ [](\A k \in DOMAIN llm_calls : BoundedRetries(llm_calls[k]))
    /\ \A k \in 1..MaxProviderCalls :
          (Len(llm_calls) >= k) ~> (Len(llm_calls) >= k /\ ProviderCallOver(llm_calls[k]))

\* One call has raised the third RateLimitError after sleeping 2 s and 4 s, and
\* another has returned a completion at its second attempt.
C31_Witness ==
    \E i, j \in DOMAIN llm_calls :
        /\ llm_calls[i].pc = "raised" /\ llm_calls[i].raised = "RateLimitError"
        /\ llm_calls[i].sleeps = <<2, 4>> /\ Len(llm_calls[i].outcomes) = 3
        /\ llm_calls[j].pc = "returned" /\ Len(llm_calls[j].outcomes) = 2
        /\ llm_calls[j].result = RespOk

------------------------------------------------------------------------------
(* Properties of main.py, checked under SpecHealth *)

HealthAnswered == app_state.health # NoAnswer

C40_InitializedOnce ==
    /\ [](app_state.init_calls >= 1 =>
            /\ app_state.engine_initialized
            /\ app_state.returned_engine = app_state.production_engine
            /\ app_state.get_engine_status \in {200, 503}
            /\ app_state.get_engine_status = 503 <=> app_state.production_engine = "None"
            /\ app_state.constructions <= 2)
    /\ [](app_state.init_calls = 0 =>
            /\ ~app_state.engine_initialized
            /\ app_state.constructions = 0
            /\ app_state.production_engine = "None")
    /\ [][app_state.init_calls >= 1 =>
            /\ app_state'.constructions = app_state.constructions
            /\ app_state'.production_engine = app_state.production_engine
            /\ app_state'.engine_initialized
            /\ app_state'.engine_init_error = app_state.engine_init_error
            /\ app_state'.init_calls > app_state.init_calls =>
                  /\ app_state'.returned_engine = app_state.returned_engine
                  /\ app_state'.get_engine_status = app_state.get_engine_status
      ]_vars

\* The first initialization failed, fallback included, and a second chat request
\* was answered 503 from the stored None.
C40_Witness ==
    /\ app_state.init_calls = 2
    /\ app_state.engine_initialized
    /\ app_state.production_engine = "None"
    /\ app_state.engine_init_error # ""
    /\ app_state.get_engine_status = 503
    /\ app_state.api_key
    /\ app_state.constructions = 2

------------------------------------------------------------------------------
(* Properties of CacheManager, checked under SpecCache *)

GetStepOn(key) ==
    last_op'.n = last_op.n + 1 /\ last_op'.op = "get" /\ last_op'.key = key

SetStepOn(key) ==
    last_op'.n = last_op.n + 1 /\ last_op'.op = "set" /\ last_op'.key = key

\* C6: a get of a key whose in-memory entry has expired (now >= expires) returns
\* None and removes the entry; an entry leaves the map only in such a get, and a
\* key comes (back) into the map only by a set on it.
C6_GetNeverReturnsExpired ==
    [][\A key \in CacheKeys :
          LET before == cache_manager.memory_cache
              after == cache_manager'.memory_cache
          IN /\ (GetStepOn(key) /\ key \in DOMAIN before /\ before[key].expires <= now)
                   => (last_op'.ret_value = None /\ key \notin DOMAIN after)
             /\ (key \in DOMAIN before /\ key \notin DOMAIN after)
                   => (GetStepOn(key) /\ before[key].expires <= now)
             /\ (key \notin DOMAIN before /\ key \in DOMAIN after) => SetStepOn(key)
      ]_vars

\* A get has just found an expired entry, answered None and evicted it.
C6_Witness ==
    /\ last_op.op = "get"
    /\ last_op.found_expired
    /\ last_op.ret_value = None
    /\ last_op.key \notin DOMAIN cache_manager.memory_cache
    /\ last_op.key \in DOMAIN last_op.sets

\* C7: in the in-memory cache, a get(k) after a successful set(k, v, ttl) returns
\* v while less than ttl seconds have passed since the most recent set on k, and
\* once ttl seconds have passed it returns None and k is no longer counted in
\* memory_cache_size.
C7_TtlCorrectness ==
    ( /\ ~cache_manager.redis_client
      /\ last_op.op = "get"
      /\ last_op.key \in DOMAIN last_op.sets )
    => LET made == last_op.sets[last_op.key]
           ttl == IF made.ttl.given THEN made.ttl.seconds ELSE default_ttl
       IN IF last_op.at < made.at + ttl
          THEN last_op.ret_value = made.value
          ELSE /\ last_op.ret_value = None
               /\ last_op.key \notin DOMAIN cache_manager.memory_cache
               /\ get_stats(cache_manager).memory_cache_size
                    = Cardinality(DOMAIN cache_manager.memory_cache \ {last_op.key})

\* C8: in the in-memory cache, set(key, value, ttl) returns True and leaves the
\* entry {value, expires = now + ttl} under key, with ttl the value the caller
\* passed, or default_ttl when the caller passed none.
C8_SetStoresWithTtl ==
    (~cache_manager.redis_client /\ last_op.op = "set")
    => /\ last_op.ret_ok
       /\ last_op.key \in DOMAIN cache_manager.memory_cache
       /\ LET made == last_op.sets[last_op.key]
              ttl == IF made.ttl.given THEN made.ttl.seconds ELSE default_ttl
          IN cache_manager.memory_cache[last_op.key]
               = [value |-> made.value, expires |-> last_op.at + ttl]

\* C11: with a redis_url configured, when the Redis write of the most recent
\* set(k, v, ttl) raised (as it does when the connection failed at construction) or
\* the Redis read of a later get(k) raises, a get(k) made less than ttl seconds
\* after the set returns v.
C11_FallbackToMemory ==
    ( /\ last_op.op = "get"
      /\ last_op.key \in DOMAIN last_op.attempts )
    => LET made == last_op.attempts[last_op.key]
           ttl == IF made.ttl.given THEN made.ttl.seconds ELSE default_ttl
       IN (last_op.at < made.at + ttl /\ (made.redis_raises \/ last_op.redis_raises))
          => last_op.ret_value = made.value

\* C23: a get call takes exactly one of cache_hits and cache_misses up by exactly
\* one, cache_hits when it returns a value and cache_misses when it returns None;
\* no other call moves them; so cache_hits + cache_misses is the number of get
\* calls made.
C23_OneCounterPerGet ==
    /\ [](cache_manager.cache_hits + cache_manager.cache_misses = last_op.gets)
    /\ [][LET hits == cache_manager'.cache_hits - cache_manager.cache_hits
              misses == cache_manager'.cache_misses - cache_manager.cache_misses
          IN IF last_op'.gets = last_op.gets + 1
             THEN IF last_op'.ret_value # None
                  THEN hits = 1 /\ misses = 0
                  ELSE hits = 0 /\ misses = 1
             ELSE hits = 0 /\ misses = 0
       ]_vars

\* The report of the get_stats call just made.
StatsReported == last_op.op = "stats"

\* C24 as stated: the reported rate is hits / (hits + misses) itself, here in
\* percent, and 0 when no get has been made; hits, misses and size are the
\* counters and the number of entries of memory_cache.
C24_HitRateExact ==
    StatsReported
    => LET total == cache_manager.cache_hits + cache_manager.cache_misses IN
       /\ last_op.stats.hits = cache_manager.cache_hits
       /\ last_op.stats.misses = cache_manager.cache_misses
       /\ last_op.stats.memory_cache_size = Cardinality(DOMAIN cache_manager.memory_cache)
       /\ total = 0 => last_op.stats.hit_rate_percent_x100 = 0
       /\ total > 0 => last_op.stats.hit_rate_percent_x100 * total
                          = 100 * 100 * cache_manager.cache_hits

\* C24: get_stats reports hit_rate_percent, the percentage 100 * hits / (hits +
\* misses) rounded to two decimals (within half a hundredth of it), and 0 when no
\* get has been made; the reported hits, misses and size are the counters and the
\* number of entries of memory_cache, expired entries not yet evicted included.
C24_HitRateRounded ==
    StatsReported
    => LET total == cache_manager.cache_hits + cache_manager.cache_misses
           reported == last_op.stats.hit_rate_percent_x100
       IN
       /\ last_op.stats.hits = cache_manager.cache_hits
       /\ last_op.stats.misses = cache_manager.cache_misses
       /\ last_op.stats.memory_cache_size = Cardinality(DOMAIN cache_manager.memory_cache)
       /\ total = 0 => reported = 0
       /\ total > 0
             => /\ 2 * (reported * total - 100 * 100 * cache_manager.cache_hits) <= total
                /\ 2 * (100 * 100 * cache_manager.cache_hits - reported * total) <= total

\* A report made after one hit in three gets: 33.33 percent.
C24_Witness ==
    /\ StatsReported
    /\ last_op.stats.hits = 1
    /\ last_op.stats.misses = 2
    /\ last_op.stats.hit_rate_percent_x100 = 3333

------------------------------------------------------------------------------
(* Properties of get_metrics, checked under SpecLatency *)

MetricsReported == metrics_reader.pc = "reported"

\* The k-th smallest of the samples, k in 1..Len(samples).
OrderStatistic(samples, k) ==
    CHOOSE v \in {samples[i] : i \in DOMAIN samples} :
        /\ Cardinality({i \in DOMAIN samples : samples[i] < v}) < k
        /\ Cardinality({i \in DOMAIN samples : samples[i] <= v}) >= k

\* The latency fields are left out of the metrics of a call that copied an empty
\* buffer, and are both there otherwise.
LatencyFieldsIffSamples ==
    LET present == {"avg_response_time_ms", "p95_response_time_ms"} \cap
                   DOMAIN metrics_reader.metrics
    IN IF metrics_reader.response_times_list = << >> THEN present = {}
       ELSE present = {"avg_response_time_ms", "p95_response_time_ms"}

\* C30 as stated: the p95 reported is the sample at index floor(0.95 * n), or the
\* last one, of the n buffered samples sorted ascending, and the latency fields
\* are left out when n = 0.
C30_P95IsSampleAtRank ==
    MetricsReported =>
        LET list == metrics_reader.response_times_list
            n == Len(list)
            rank == Min((95 * n) \div 100, n - 1)
        IN /\ LatencyFieldsIffSamples
           /\ n > 0 => metrics_reader.metrics.p95_response_time_ms
                          = OrderStatistic(list, rank + 1) * 100000

\* C30 amended: the p95 reported lies at the position 0.95 * (n - 1) of the n
\* buffered samples sorted ascending, interpolated linearly between the two
\* samples around that position: with 95 * (n - 1) = 100 * k + r and r < 100 it is
\* ((100 - r) * sorted[k] + r * sorted[k + 1]) / 100.  The latency fields are left
\* out when n = 0.
C30_P95Interpolated ==
    MetricsReported =>
        LET list == metrics_reader.response_times_list
            n == Len(list)
            k == (95 * (n - 1)) \div 100
            r == (95 * (n - 1)) % 100
            below == OrderStatistic(list, k + 1)
            above == OrderStatistic(list, Min(k + 2, n))
        IN /\ LatencyFieldsIffSamples
           /\ n > 0 => 100 * metrics_reader.metrics.p95_response_time_ms
                          = ((100 - r) * below + r * above) * 100000

\* get_metrics has reported on a full buffer holding two different samples, the
\* p95 falling strictly between the smallest and the largest.
C30_Witness ==
    /\ MetricsReported
    /\ Len(metrics_reader.response_times_list) = window_size
    /\ \E i, j \in DOMAIN metrics_reader.response_times_list :
          /\ metrics_reader.response_times_list[i] < metrics_reader.response_times_list[j]
          /\ metrics_reader.response_times_list[i] * 100000
                < metrics_reader.metrics.p95_response_time_ms
          /\ metrics_reader.metrics.p95_response_time_ms
                < metrics_reader.response_times_list[j] * 100000

------------------------------------------------------------------------------
(* Properties of PerformanceMonitor, checked under SpecMonitor *)

Exited(kind) == {s \in ScopeIds : scopes[s].pc = "done" /\ scopes[s].exit = kind}

InScope == {s \in ScopeIds : scopes[s].pc \in {"body", "raised"}}

C35_ConcurrentIsOpenScopes ==
    LET pm == performance_monitor
        open == {s \in ScopeIds : scopes[s].pc # "new" /\ scopes[s].pc # "done"}
        entered == {s \in ScopeIds : scopes[s].pc # "new"}
    IN /\ pm.concurrent_requests = Cardinality(open)
       /\ pm.concurrent_requests >= 0
       /\ pm.concurrent_requests <= pm.total_requests
       /\ pm.total_requests = Cardinality(entered)
       /\ open = {} => pm.concurrent_requests = 0

\* Two scopes are open, one in its body and one between its except and its finally
\* block, and a third has exited.
C35_Witness ==
    /\ \E s, t, u \in ScopeIds :
          /\ scopes[s].pc = "body"
          /\ scopes[t].pc = "raised"
          /\ scopes[u].pc = "done"
    /\ performance_monitor.concurrent_requests = 2
    /\ performance_monitor.total_requests = 3

\* C10: the step in which a scope is cancelled takes concurrent_requests down by
\* exactly one and appends exactly one latency sample (the scope's duration, the
\* oldest sample making room in a full buffer); and concurrent_requests always
\* equals the number of scopes entered and not yet exited, so a cancelled scope
\* leaves nothing behind.
C10_CancelledScopeBookkeeping ==
    /\ [](performance_monitor.concurrent_requests = Cardinality(InScope))
    /\ [][\A s \in ScopeIds :
             (scopes[s].pc = "body" /\ scopes'[s].pc = "done" /\ scopes'[s].exit = "cancelled")
             => LET before == performance_monitor.response_times
                    after == performance_monitor'.response_times
                IN /\ performance_monitor'.concurrent_requests
                        = performance_monitor.concurrent_requests - 1
                   /\ Len(after) = Min(Len(before) + 1, window_size)
                   /\ after[Len(after)] = now - scopes[s].start_time
                   /\ \A k \in 1..(Len(after) - 1) :
                         after[k] = before[k + Len(before) + 1 - Len(after)]
                   /\ performance_monitor'.error_count = performance_monitor.error_count
                   /\ performance_monitor'.total_requests = performance_monitor.total_requests
       ]_vars

\* A scope was cancelled after time passed in its body, into a full buffer, and no
\* scope is left open.
C10_Witness ==
    /\ \E s \in ScopeIds : scopes[s].pc = "done" /\ scopes[s].exit = "cancelled"
    /\ InScope = {}
    /\ performance_monitor.concurrent_requests = 0
    /\ Len(performance_monitor.response_times) = window_size
    /\ performance_monitor.response_times[window_size] > 0
    /\ performance_monitor.total_requests > window_size

\* C21: no step takes total_requests or error_count of the PerformanceMonitor, or
\* cache_hits or cache_misses of the CacheManager, below the value it had, in any
\* interleaving of measure_request scopes and cache calls.
C21_CountersNeverDecrease ==
    [][/\ performance_monitor'.total_requests >= performance_monitor.total_requests
       /\ performance_monitor'.error_count >= performance_monitor.error_count
       /\ cache_manager'.cache_hits >= cache_manager.cache_hits
       /\ cache_manager'.cache_misses >= cache_manager.cache_misses]_vars

\* Every counter has moved, and every scope has exited, so that
\* concurrent_requests has come down again.
C21_Witness ==
    /\ performance_monitor.total_requests >= 2
    /\ performance_monitor.error_count >= 1
    /\ performance_monitor.concurrent_requests = 0
    /\ cache_manager.cache_hits >= 1
    /\ cache_manager.cache_misses >= 1

\* C22: response_times never holds more than window_size samples; the step in which
\* a scope exits, however it exits, appends exactly one sample, the scope's
\* duration, and when the buffer was full drops exactly the oldest sample, the
\* others keeping their order; no other step changes the buffer.
C22_RingBufferCapacity ==
    /\ [](Len(performance_monitor.response_times) <= window_size)
    /\ [][LET before == performance_monitor.response_times
              after == performance_monitor'.response_times
              exiting == {s \in ScopeIds : scopes[s].pc # "done" /\ scopes'[s].pc = "done"}
          IN /\ exiting = {} => after = before
             /\ \A s \in exiting :
                   /\ Len(after) = Min(Len(before) + 1, window_size)
                   /\ after[Len(after)] = now - scopes[s].start_time
                   /\ \A k \in 1..(Len(after) - 1) :
                         after[k] = before[k + Len(before) + 1 - Len(after)]
       ]_vars

\* More scopes have exited than the buffer holds, normally and with an error, and
\* the buffer holds the samples of the last window_size exits, the older one first.
C22_Witness ==
    /\ Len(performance_monitor.response_times) = window_size
    /\ Cardinality({s \in ScopeIds : scopes[s].pc = "done"}) > window_size
    /\ Exited("normal") # {}
    /\ Exited("error") # {}
    /\ performance_monitor.response_times[1] > performance_monitor.response_times[window_size]

\* C20: what a get_metrics call returns (total_requests, error_count, the counts
\* behind error_rate_percent, concurrent_requests and the latency samples) are the
\* values of one state the monitor was in during the call.
C20_MetricsSnapshotConsistent ==
    metrics_reader.pc = "returned"
    => \E pm \in metrics_reader.seen :
          /\ metrics_reader.response_times_list = pm.response_times
          /\ metrics_reader.total_requests = pm.total_requests
          /\ metrics_reader.error_count = pm.error_count
          /\ metrics_reader.rate_error_count = pm.error_count
          /\ metrics_reader.rate_total_requests = pm.total_requests
          /\ metrics_reader.concurrent_requests = pm.concurrent_requests

------------------------------------------------------------------------------
(* Properties of the summarization cadence, checked under SpecCadence *)

\* C2: with threshold 20, in a conversation of sequential successful calls from an
\* empty history, the call during which the user+assistant count reaches 20
\* reports summary_created = True and persists one Summary, and every other call
\* up to count 39 reports summary_created = False and persists none.
C2_SummaryAtThreshold ==
    (calls[1].pc = "returned" /\ calls[1].success)
    => LET count == get_user_assistant_message_count(db_messages, CadenceConv) IN
       count < 2 * summarize_threshold
       => /\ calls[1].summary_created
               = (count = summarize_threshold \/ count - 1 = summarize_threshold)
          /\ Len(db_summaries[CadenceConv]) = count \div summarize_threshold

\* C32: in a conversation of sequential successful calls from an empty history, the
\* count should_summarize sees, taken after the user message of the call is stored,
\* is odd at every call, should_summarize answers False each time, no call reports
\* summary_created and no Summary is ever persisted.
C32_SequentialTurnsNeverSummarize ==
    /\ [](/\ db_summaries[CadenceConv] = << >>
          /\ ~calls[1].summary_created
          /\ calls[1].pc = "returned" =>
                /\ calls[1].success
                /\ get_user_assistant_message_count(db_messages, CadenceConv) % 2 = 0)
    /\ [][calls[1].pc \in {"new", "returned"} /\ calls'[1].pc # calls[1].pc
           => LET stored == create_message(db_messages, CadenceConv, "user", calls'[1].input)
                  count == get_user_assistant_message_count(stored, CadenceConv)
              IN /\ count % 2 = 1
                 /\ count = Len(db_messages[CadenceConv]) + 1
                 /\ ~should_summarize(stored, CadenceConv)
                 /\ db_summaries' = db_summaries
      ]_vars

\* The conversation has passed the threshold: more than 20 messages are stored, the
\* last call has answered, and there is no Summary.
C32_Witness ==
    /\ calls[1].pc = "returned" /\ calls[1].success
    /\ get_user_assistant_message_count(db_messages, CadenceConv) > summarize_threshold
    /\ db_summaries[CadenceConv] = << >>

\* C34: however the calls on one conversation overlap, the Summaries persisted for
\* it never outnumber the multiples of 20 its user+assistant count has passed; a
\* step persists at most one Summary, and only when the count its cadence check
\* sees, the one reached by its own user message, is a multiple of 20.
C34_SummariesBoundedByCount ==
    /\ [](Len(db_summaries[CadenceConv])
            <= get_user_assistant_message_count(db_messages, CadenceConv) \div 20)
    /\ [][/\ Len(db_summaries'[CadenceConv]) <= Len(db_summaries[CadenceConv]) + 1
          /\ Len(db_summaries'[CadenceConv]) >= Len(db_summaries[CadenceConv])
          /\ get_user_assistant_message_count(db_messages', CadenceConv)
                >= get_user_assistant_message_count(db_messages, CadenceConv)
          /\ Len(db_summaries'[CadenceConv]) > Len(db_summaries[CadenceConv])
                => (get_user_assistant_message_count(db_messages, CadenceConv) + 1) % 20 = 0
      ]_vars

\* A Summary has been persisted by a call that overlapped with another call on the
\* conversation.
C34_Witness ==
    /\ Len(db_summaries[CadenceConv]) = 1
    /\ \E i \in CallIds : calls[i].summary_created /\ calls[i].overlapped

\* The rows of the conversation written by the user or the assistant, oldest first.
UserAssistantRows(rows) ==
    SelectSeq(rows, LAMBDA m : m.role = "user" \/ m.role = "assistant")

\* C28: the step in which summarization fires appends exactly one Summary to the
\* conversation and leaves the earlier ones alone; what it selects are the last 20
\* rows written by the user or the assistant, in history order, no system row among
\* them; and every row persisted before the step is still there, unchanged and in
\* its place.
C28_SummarizationAppendsOne ==
    [][Len(db_summaries'[CadenceConv]) # Len(db_summaries[CadenceConv])
         => LET before == db_messages[CadenceConv]
                after == db_messages'[CadenceConv]
                turns == UserAssistantRows(after)
                selected == get_messages_for_summarization(db_messages', CadenceConv)
            IN /\ db_summaries'[CadenceConv] = Append(db_summaries[CadenceConv], SummaryText)
               /\ calls'[1].summary_created
               /\ Len(selected) = 20
               /\ \A k \in 1..20 : selected[k] = turns[Len(turns) - 20 + k]
               /\ \A k \in 1..20 : selected[k].role # "system"
               /\ Len(after) >= Len(before)
               /\ \A k \in DOMAIN before : after[k] = before[k]
               /\ \A c \in Convs \ {CadenceConv} :
                     /\ db_summaries'[c] = db_summaries[c]
                     /\ db_messages'[c] = db_messages[c]
      ]_vars

\* A summary has been persisted in a call whose history holds a system row among
\* its last 20 rows and more than 20 rows in all.
C28_Witness ==
    /\ Len(db_summaries[CadenceConv]) = 1
    /\ calls[1].summary_created
    /\ Len(db_messages[CadenceConv]) > 20
    /\ \E k \in DOMAIN db_messages[CadenceConv] :
          /\ k > Len(db_messages[CadenceConv]) - 20
          /\ db_messages[CadenceConv][k].role = "system"

------------------------------------------------------------------------------
(* Properties of the pipeline, checked under Spec *)

\* C1: two process_message_enhanced calls that are in flight together (both
\* started before either one's generation call returned, within one cache ttl)
\* and whose built prompts have the same fingerprint invoke generate_response
\* at most once between them.
C1_SingleFlight ==
    \A i, j \in CallIds :
        ( /\ i # j
          /\ calls[i].pc = "generating"
          /\ calls[j].pc = "generating"
          /\ calls[i].start_time - calls[j].start_time < response_ttl
          /\ calls[j].start_time - calls[i].start_time < response_ttl
          /\ create_messages_hash(calls[i].llm_messages)
                = create_messages_hash(calls[j].llm_messages) )
        => calls[i].n_generate + calls[j].n_generate <= 1

\* C3: a call whose input is empty or longer than 2000 characters is rejected with
\* a failure result before any side effect: no create_message, no cache access, no
\* generation.
C3_ValidationBoundary ==
    \A i \in CallIds :
        (calls[i].pc # "new" /\ ~validate_input(calls[i].input))
        => /\ calls[i].pc = "returned"
           /\ ~calls[i].success
           /\ calls[i].n_create_message = 0
           /\ calls[i].n_cache_get = 0
           /\ calls[i].n_generate = 0

\* C4: no exception raised by a step of process_message_enhanced or of the basic
\* process_message leaves the call; a call in which a step raised returns success = False with the message of that
\* error, and a call in which none raised returns success = True with a response.
C4_WellFormedResult ==
    \A i \in CallIds :
        /\ calls[i].pc # "raised"
        /\ calls[i].pc = "returned" =>
              IF calls[i].fault # "none"
              THEN /\ ~calls[i].success
                   /\ calls[i].error = ErrorMessage(calls[i].fault)
                   /\ calls[i].response = None
              ELSE /\ calls[i].success
                   /\ calls[i].response # None
                   /\ calls[i].error = ""

\* Each kind of failing step has produced a failure result, and a call has succeeded.
C4_Witness ==
    /\ \E i \in CallIds : calls[i].pc = "returned" /\ calls[i].fault = "generate"
                            /\ ~calls[i].success /\ calls[i].error = "generate"
    /\ \E i \in CallIds : calls[i].pc = "returned" /\ calls[i].fault = "add_user"
                            /\ ~calls[i].success

\* C5: a call whose cache lookup finds a live entry under its prompt's key returns
\* the stored response and does not invoke generate_response.
C5_CacheHitSkipsGeneration ==
    \A i \in CallIds :
        calls[i].cache_hit
        => /\ calls[i].n_generate = 0
           /\ (calls[i].pc = "returned" /\ calls[i].success)
                 => calls[i].response = calls[i].cached

\* C25: a process_message_enhanced call whose cache lookup found nothing to serve
\* invokes generate_response once and never again; the step in which
\* generate_response returns stores what it returned under the key of the call's
\* prompt with expires = now + 1800, by one set call; and 1800 is not the cache's
\* default ttl of 3600.
C25_GenerateOnceStoreWithResponseTtl ==
    /\ [](\A i \in CallIds :
             calls[i].kind = "enhanced"
             => /\ calls[i].n_generate <= 1
                /\ (calls[i].n_cache_get = 1 /\ ~Truthy(calls[i].cached))
                      => calls[i].n_generate = 1
                /\ calls[i].n_cache_set <= calls[i].n_generate)
    /\ [](response_ttl = 1800 /\ default_ttl = 3600)
    /\ [][\A i \in CallIds :
             ( /\ calls[i].kind = "enhanced"
               /\ calls[i].pc = "generating"
               /\ calls'[i].pc = "returned"
               /\ calls'[i].fault # "generate" )
             => LET key == ResponseKey(create_messages_hash(calls[i].llm_messages)) IN
                /\ calls'[i].n_generate = 1
                /\ calls'[i].n_cache_set = 1
                /\ key \in DOMAIN cache_manager'.memory_cache
                /\ cache_manager'.memory_cache[key].expires = now + 1800
                /\ calls'[i].success
                      => cache_manager'.memory_cache[key].value = calls'[i].response
                /\ \A other \in DOMAIN cache_manager'.memory_cache \ {key} :
                      /\ other \in DOMAIN cache_manager.memory_cache
                      /\ cache_manager'.memory_cache[other] = cache_manager.memory_cache[other]
       ]_vars

\* A call that missed the cache has returned what generate_response gave it, and
\* the cache holds that text until 1800 s from now.
C25_Witness ==
    \E i \in CallIds :
        /\ calls[i].kind = "enhanced"
        /\ calls[i].pc = "returned"
        /\ calls[i].success
        /\ calls[i].cached = None
        /\ calls[i].n_generate = 1
        /\ calls[i].n_cache_set = 1
        /\ calls[i].response = RespOk
        /\ \E key \in DOMAIN cache_manager.memory_cache :
              cache_manager.memory_cache[key] = [value |-> RespOk, expires |-> now + 1800]

\* C29: the steps of one process_message_enhanced call come in program order.  The
\* user message is persisted first, so the history the call loads ends with it; a
\* call that awaits generate_response has consulted the cache before and got
\* nothing it could use;
\* the assistant message is persisted only with a response in hand, the cached one
\* or the one generate_response returned, never when generate_response raised; and
\* a call that returns success has persisted one user message and one assistant
\* message, in that order, and nothing else.
C29_StepsInProgramOrder ==
    [][\A i \in CallIds :
         calls'[i].pc # calls[i].pc /\ calls'[i].kind = "enhanced"
         => LET c == calls'[i]
                before == db_messages[c.conv]
                after == db_messages'[c.conv]
                added == SubSeq(after, Len(before) + 1, Len(after))
                user_row == [role |-> "user", content |-> c.input]
            IN /\ Len(after) >= Len(before)
               /\ \A k \in DOMAIN before : after[k] = before[k]
               /\ calls[i].pc = "new" =>
                     /\ Len(added) = c.n_create_message
                     /\ c.history_last # None => added # << >> /\ c.history_last = user_row
                     /\ added # << >> => added[1] = user_row
                     /\ c.n_cache_get > 0 => c.history_last # None
                     /\ c.n_generate > 0 => c.n_cache_get = 1 /\ ~Truthy(c.cached)
                     /\ Len(added) > 1 =>
                           /\ Len(added) = 2
                           /\ c.n_cache_get = 1 /\ c.n_generate = 0
                           /\ Truthy(c.cached)
                           /\ added[2] = [role |-> "assistant", content |-> c.cached]
                     /\ c.success => Len(added) = 2
               /\ calls[i].pc = "generating" =>
                     /\ Len(added) = c.n_create_message - calls[i].n_create_message
                     /\ Len(added) <= 1
                     /\ added # << >> =>
                           /\ c.n_generate = 1 /\ c.fault # "generate"
                           /\ c.success
                           /\ added[1] = [role |-> "assistant", content |-> c.response]
                     /\ c.success => Len(added) = 1 /\ calls[i].n_create_message = 1
               /\ c.success => c.n_create_message = 2
      ]_vars

\* One call has returned success with a generated response and another with a
\* cached one.
C29_Witness ==
    \E i, j \in CallIds :
        /\ calls[i].kind = "enhanced" /\ calls[i].pc = "returned" /\ calls[i].success
        /\ calls[i].n_generate = 1 /\ calls[i].n_create_message = 2
        /\ calls[j].kind = "enhanced" /\ calls[j].pc = "returned" /\ calls[j].success
        /\ calls[j].cache_hit /\ calls[j].n_generate = 0 /\ calls[j].n_create_message = 2

\* C33: the step in which a process_message_enhanced call returns a failure result
\* leaves the monitor as a normal exit does: the elapsed time of the call is
\* appended to the latency samples, error_count is unchanged, and
\* concurrent_requests and total_requests are what they were before the call
\* entered its scope and one more, respectively (a call that fails before it ever
\* suspends enters and leaves in the same step).
C33_FailureResultIsNormalExit ==
    [][\A i \in CallIds :
         /\ calls'[i].pc = "returned" /\ calls[i].pc # "returned"
         /\ calls'[i].kind = "enhanced" /\ ~calls'[i].success
         => LET pm == performance_monitor
                entered == calls[i].pc = "generating"
                duration == IF entered THEN now - calls[i].start_time ELSE 0
            IN /\ calls'[i].error # ""
               /\ performance_monitor'.error_count = pm.error_count
               /\ performance_monitor'.total_requests
                     = pm.total_requests + (IF entered THEN 0 ELSE 1)
               /\ performance_monitor'.concurrent_requests
                     = pm.concurrent_requests - (IF entered THEN 1 ELSE 0)
               /\ performance_monitor'.response_times
                     = LastN(Append(pm.response_times, duration), window_size)
      ]_vars

\* A call has returned a failure result after its generation failed, another has
\* failed before it ever suspended, and the monitor has counted two requests, two
\* samples and no error.
C33_Witness ==
    /\ \E i, j \in CallIds :
          /\ calls[i].kind = "enhanced" /\ calls[i].pc = "returned" /\ ~calls[i].success
          /\ calls[i].n_generate = 1
          /\ calls[j].kind = "enhanced" /\ calls[j].pc = "returned" /\ ~calls[j].success
          /\ calls[j].n_generate = 0
    /\ performance_monitor.total_requests = 2
    /\ performance_monitor.error_count = 0
    /\ performance_monitor.concurrent_requests = 0
    /\ Len(performance_monitor.response_times) = 2

\* C37: the key of the response cache is made from the built prompt alone.  When
\* a call has generated a response for one conversation and stored it, a call
\* for another conversation that starts within the ttl and builds the same prompt
\* looks up the same key, gets that response back and, nothing else failing,
\* returns it without invoking generate_response.
C37_CacheSharedAcrossConversations ==
    [][\A i, j \in CallIds :
         /\ calls[j].pc = "new" /\ calls'[j].pc # "new"
         /\ calls'[j].kind = "enhanced" /\ calls'[j].n_cache_get = 1
         /\ calls[i].kind = "enhanced" /\ calls[i].pc = "returned" /\ calls[i].success
         /\ calls[i].n_generate = 1 /\ calls[i].set_ok
         /\ calls[i].conv # calls'[j].conv
         /\ calls[i].prompt = calls'[j].prompt
         /\ now - calls[i].set_at < response_ttl
         => /\ calls'[j].key = calls[i].key
            /\ calls'[j].cached = calls[i].response
            /\ calls'[j].n_generate = 0
            /\ calls'[j].fault = "none" =>
                  /\ calls'[j].pc = "returned" /\ calls'[j].success
                  /\ calls'[j].response = calls[i].response
      ]_vars

\* C39: a process_message call that returns success reports summary_created = True
\* exactly when a Summary was persisted during the call.
C39_BasicSummaryCreatedIsTruthful ==
    \A i \in CallIds :
        (calls[i].kind = "basic" /\ calls[i].pc = "returned" /\ calls[i].success)
        => calls[i].summary_created = calls[i].summary_persisted

\* C26: in the step in which a process_message_enhanced call returns success, no
\* other call having been in flight on its conversation during it, message_count
\* is the number of messages persisted for the conversation as the step ends: the
\* history loaded after the user message was persisted, plus the assistant message.
C26_MessageCountIsPersistedCount ==
    [][\A i \in CallIds :
          ( /\ calls[i].pc # "returned"
            /\ calls'[i].pc = "returned"
            /\ calls'[i].kind = "enhanced"
            /\ calls'[i].success
            /\ ~calls'[i].overlapped )
          => LET conv == calls'[i].conv IN
             /\ calls'[i].message_count = Len(db_messages'[conv])
             /\ db_messages'[conv][Len(db_messages'[conv])]
                  = [role |-> "assistant", content |-> calls'[i].response]
             /\ \E k \in 1..(Len(db_messages'[conv]) - 1) :
                   db_messages'[conv][k] = [role |-> "user", content |-> calls'[i].input]
      ]_vars

\* The second turn of a conversation has returned through generation, alone on its
\* conversation, and reports the four messages persisted.
C26_Witness ==
    \E i \in CallIds :
        /\ calls[i].kind = "enhanced"
        /\ calls[i].pc = "returned"
        /\ calls[i].success
        /\ ~calls[i].overlapped
        /\ calls[i].n_generate = 1
        /\ calls[i].message_count = 4
        /\ Len(db_messages[calls[i].conv]) = 4

\* C19: a process_message_enhanced call whose generate_response raised has returned
\* a failure result with the message of that error, with its user message persisted
\* and nothing else: no assistant message and no cache write; and the step in
\* which it fails leaves the tables and the cache as they were.
C19_NoRollbackAfterGenerationFailure ==
    /\ [](\A i \in CallIds :
             ( /\ calls[i].kind = "enhanced"
               /\ calls[i].pc = "returned"
               /\ calls[i].fault = "generate" )
             => /\ ~calls[i].success
                /\ calls[i].error = "generate"
                /\ calls[i].n_create_message = 1
                /\ calls[i].n_cache_set = 0
                /\ \E k \in DOMAIN db_messages[calls[i].conv] :
                      db_messages[calls[i].conv][k]
                        = [role |-> "user", content |-> calls[i].input])
    /\ [][\A i \in CallIds :
             ( /\ calls[i].kind = "enhanced"
               /\ calls[i].pc = "generating"
               /\ calls'[i].pc = "returned"
               /\ calls'[i].fault = "generate" )
             => /\ db_messages' = db_messages
                /\ db_summaries' = db_summaries
                /\ cache_manager' = cache_manager
                /\ redis_store' = redis_store]_vars

\* A call has failed in generation: its conversation holds its user message alone
\* and the cache holds nothing.
C19_Witness ==
    \E i \in CallIds :
        /\ calls[i].kind = "enhanced"
        /\ calls[i].pc = "returned"
        /\ calls[i].fault = "generate"
        /\ db_messages[calls[i].conv] = <<[role |-> "user", content |-> calls[i].input]>>
        /\ DOMAIN cache_manager.memory_cache = {}

------------------------------------------------------------------------------
(* Properties of the pipeline with Redis configured, checked under SpecRedis *)

\* C12: a call whose cache lookup raised in Redis got None from get and invoked
\* generate_response; a call whose cache store raised in Redis got False from set;
\* and such a call, when no step outside the cache raised, has returned success
\* with both its user and its assistant message persisted.
C12_CacheFailureNotFatal ==
    \A i \in CallIds :
        /\ calls[i].redis_get_raised
              => /\ calls[i].cached = None
                 /\ ~calls[i].cache_hit
                 /\ calls[i].n_generate = 1
        /\ calls[i].redis_set_raised => ~calls[i].set_ok
        /\ ( /\ calls[i].redis_get_raised \/ calls[i].redis_set_raised
             /\ calls[i].pc = "returned"
             /\ calls[i].fault = "none" )
              => /\ calls[i].success
                 /\ calls[i].error = ""
                 /\ calls[i].n_create_message = 2
                 /\ \E k \in DOMAIN db_messages[calls[i].conv] :
                       db_messages[calls[i].conv][k]
                         = [role |-> "assistant", content |-> calls[i].response]

\* A call has returned success although both its Redis read and its Redis write
\* raised.
C12_Witness ==
    \E i \in CallIds :
        /\ calls[i].pc = "returned"
        /\ calls[i].redis_get_raised
        /\ calls[i].redis_set_raised
        /\ calls[i].success
        /\ calls[i].n_generate = 1

------------------------------------------------------------------------------
(* Properties of the phase, checked under SpecPhaseCalls *)

\* The values of ConversationPhase.GREETING, INFORMATION_GATHERING and
\* PROBLEM_SOLVING; the second is spelt "info_gathering".
ProducedPhases == {"greeting", "info_gathering", "problem_solving"}

\* C38: analyze_conversation_phase answers greeting, information gathering or
\* problem solving on every history, never casual_chat, wrap_up or archived; so
\* the phase stored for a conversation, once one is stored, and the phase in the
\* payload of every successful call are among those three.
C38_ThreePhasesOnly ==
    /\ analyze_conversation_phase(db_messages[CadenceConv]) \in ProducedPhases
    /\ \A k \in 0..Len(db_messages[CadenceConv]) :
          analyze_conversation_phase(SubSeq(db_messages[CadenceConv], 1, k))
             \notin {"casual_chat", "wrap_up", "archived"}
    /\ \A c \in Convs : conversation_states[c] \in ProducedPhases \cup {"none"}
    /\ db_messages[CadenceConv] # << >> => conversation_states[CadenceConv] \in ProducedPhases
    /\ \A i \in CallIds :
          (calls[i].pc = "returned" /\ calls[i].success) => calls[i].phase \in ProducedPhases

\* A call has returned the phase information gathering, on a history of more than two messages none of whose last five
\* holds a keyword.
C38_Witness ==
    /\ calls[1].pc = "returned" /\ calls[1].success
    /\ calls[1].phase = "info_gathering"
    /\ conversation_states[CadenceConv] = "info_gathering"
    /\ Len(db_messages[CadenceConv]) > 2
    /\ JoinedKeywords(LastN(db_messages[CadenceConv], phase_window)) = {}

------------------------------------------------------------------------------
(* Properties of ConversationStateManager, checked under SpecPhase *)

\* Whether one of the keywords occurs in the last phase_window messages.
WindowHas(messages, keywords) ==
    \E k \in DOMAIN messages :
        /\ k > Len(messages) - phase_window
        /\ messages[k].content.kw \cap keywords # {}

\* C13: the phase of a classified conversation follows the rules in order: an empty
\* history is greeting; else a problem keyword in the last 5 messages gives
\* problem_solving, whatever else holds; else a greeting keyword with at most 2
\* messages in all gives greeting; else info_gathering.  [user "hi"] is greeting and
\* [user "hi", assistant "hello", user "I have a problem"] is problem_solving.
C13_PhaseRuleOrder ==
    LET history == db_messages[CadenceConv]
        phase == conversation_states[CadenceConv]
    IN phase # "none"
       => /\ history = << >> => phase = "greeting"
          /\ (history # << >> /\ WindowHas(history, ProblemKeywords))
                => phase = "problem_solving"
          /\ ( /\ history # << >>
               /\ ~WindowHas(history, ProblemKeywords)
               /\ WindowHas(history, GreetingKeywords)
               /\ Len(history) <= 2 ) => phase = "greeting"
          /\ ( /\ history # << >>
               /\ ~WindowHas(history, ProblemKeywords)
               /\ ~(WindowHas(history, GreetingKeywords) /\ Len(history) <= 2) )
                => phase = "info_gathering"
          /\ history = <<[role |-> "user", content |-> TxtHi]>> => phase = "greeting"
          /\ history = <<[role |-> "user", content |-> TxtHi],
                         [role |-> "assistant", content |-> TxtHello],
                         [role |-> "user", content |-> TxtProblem]>>
                => phase = "problem_solving"

\* A history of two messages holding both a greeting and a problem keyword has
\* been classified as problem_solving.
C13_Witness ==
    /\ Len(db_messages[CadenceConv]) = 2
    /\ WindowHas(db_messages[CadenceConv], GreetingKeywords)
    /\ WindowHas(db_messages[CadenceConv], ProblemKeywords)
    /\ conversation_states[CadenceConv] = "problem_solving"

\* The sequences of contents whose last phase_window elements are the contents of
\* the last phase_window messages.
SameWindow(messages) ==
    {other \in UNION {[1..k -> PhaseContents] : k \in 0..MaxHistory} :
        LastN(other, phase_window)
          = LastN([k \in DOMAIN messages |-> messages[k].content], phase_window)}

\* C14: the phase of a classified conversation is the phase of every history with
\* the same last 5 messages (the whole history when shorter), whatever came before
\* them; and classifying changes nothing but the conversation's recorded phase.
C14_PhaseFromWindowAlone ==
    /\ [](conversation_states[CadenceConv] # "none"
            => \A other \in SameWindow(db_messages[CadenceConv]) :
                  analyze_conversation_phase(
                      [k \in DOMAIN other |-> [role |-> "user", content |-> other[k]]])
                    = conversation_states[CadenceConv])
    /\ [][db_messages' = db_messages
            => /\ UNCHANGED <<llm_calls, app_state, hash_calls, metrics_reader, now, ticks, cache_manager, redis_store, performance_monitor,
                              db_summaries, calls, last_op, scopes>>
               /\ \A c \in Convs \ {CadenceConv} :
                     conversation_states'[c] = conversation_states[c]]_vars

\* A classified history longer than the window, whose first message holds a
\* problem keyword the window does not hold.
C14_Witness ==
    /\ Len(db_messages[CadenceConv]) > phase_window
    /\ db_messages[CadenceConv][1].content = TxtProblem
    /\ ~WindowHas(db_messages[CadenceConv], ProblemKeywords)
    /\ conversation_states[CadenceConv] = "info_gathering"

------------------------------------------------------------------------------
(* Properties of the prompt, checked under SpecPrompt *)

\* The prompt of the call that awaits generate_response.
PromptBuilt == calls[1].pc = "generating"

\* The rows of the conversation that are not system messages, oldest first.
NonSystemHistory ==
    SelectSeq(db_messages[CadenceConv], LAMBDA m : m.role # "system")

\* sum over the messages of floor(len(content) / 4) + 4
RECURSIVE TokenEstimate(_)
TokenEstimate(messages) ==
    IF messages = << >> THEN 0
    ELSE (Head(messages).content.len \div 4) + 4 + TokenEstimate(Tail(messages))

\* messages without its first k elements
Suffix(messages, k) == SubSeq(messages, k + 1, Len(messages))

\* C15: the history part of the prompt is a suffix of the non-system history, in
\* order; its token estimate is at most 3000; no longer suffix has an estimate of
\* at most 3000; and it is empty only when the newest message alone is over 3000.
C15_LongestSuffixInBudget ==
    PromptBuilt
    => LET history == NonSystemHistory
           sent == Tail(calls[1].llm_messages)
           dropped == Len(history) - Len(sent)
       IN /\ dropped >= 0
          /\ sent = Suffix(history, dropped)
          /\ TokenEstimate(sent) <= 3000
          /\ \A k \in 0..(dropped - 1) : TokenEstimate(Suffix(history, k)) > 3000
          /\ sent = << >> => TokenEstimate(<<history[Len(history)]>>) > 3000

\* Messages were dropped from the oldest end and more than one was kept.
C15_Witness ==
    /\ PromptBuilt
    /\ Len(Tail(calls[1].llm_messages)) >= 2
    /\ Len(Tail(calls[1].llm_messages)) < Len(NonSystemHistory)
    /\ TokenEstimate(Tail(calls[1].llm_messages)) > 1500

\* C36: when the input of the call is at most 4000 characters long and no other
\* call runs on the conversation, the prompt sent to generate_response ends with
\* the user message of the call, whatever the history before it: trimming to the
\* token budget never drops the message being answered.
C36_PromptEndsWithCurrentInput ==
    (PromptBuilt /\ calls[1].input.len <= 4000)
    => LET prompt == calls[1].llm_messages
       IN /\ Len(prompt) >= 2
          /\ prompt[Len(prompt)] = [role |-> "user", content |-> calls[1].input]
          /\ db_messages[CadenceConv][Len(db_messages[CadenceConv])]
                = [role |-> "user", content |-> calls[1].input]

\* A call with an input of 4000 characters has built its prompt from a history
\* that did not fit the budget: older messages were dropped, the input is there.
C36_Witness ==
    /\ PromptBuilt
    /\ calls[1].input = TxtIngressMax
    /\ Len(NonSystemHistory) > Len(Tail(calls[1].llm_messages))
    /\ calls[1].llm_messages[Len(calls[1].llm_messages)].content = TxtIngressMax

\* C16: the prompt begins with a system message and holds no other; the system
\* message is the whole state-aware prompt: the persona, the summary section for
\* the latest summary and the phase, however long they are; and what follows it
\* are non-system rows of the history.
C16_OneSystemMessageFirst ==
    PromptBuilt
    => LET prompt == calls[1].llm_messages
           latest == IF db_summaries[CadenceConv] = << >> THEN None
                     ELSE db_summaries[CadenceConv][Len(db_summaries[CadenceConv])]
       IN /\ Len(prompt) >= 1
          /\ prompt[1].role = "system"
          /\ \A k \in 2..Len(prompt) : prompt[k].role # "system"
          /\ prompt[1].content.base_prompt.persona = PersonaContent
          /\ prompt[1].content.phase = calls[1].phase
          /\ prompt[1].content.phase \in {"greeting", "problem_solving", "info_gathering"}
          /\ latest.len > 0 => prompt[1].content.base_prompt.summary = latest
          /\ \A k \in 2..Len(prompt) :
                \E j \in DOMAIN db_messages[CadenceConv] :
                    db_messages[CadenceConv][j] = prompt[k]

\* The history holds a system row and was trimmed, and the system prompt carries
\* a summary whose own token estimate is over the budget.
C16_Witness ==
    /\ PromptBuilt
    /\ \E j \in DOMAIN db_messages[CadenceConv] : db_messages[CadenceConv][j].role = "system"
    /\ Len(Tail(calls[1].llm_messages)) < Len(NonSystemHistory)
    /\ calls[1].llm_messages[1].content.base_prompt.summary = TxtOverBudget
    /\ TxtOverBudget.len \div 4 > 3000 - 4

\* C17: the system prompt of the built prompt has one summary section at most;
\* with no summary persisted it has none, and with summaries persisted the section
\* holds the text of the one created last and of no other.
C17_AtMostLatestSummary ==
    PromptBuilt
    => LET section == calls[1].llm_messages[1].content.base_prompt.summary
           persisted == db_summaries[CadenceConv]
       IN /\ persisted = << >> => section = None
          /\ persisted # << >>
                => /\ section \in {None, persisted[Len(persisted)]}
                   /\ section = None => persisted[Len(persisted)].len = 0

\* Two different summaries are persisted and the prompt carries the later one.
C17_Witness ==
    /\ PromptBuilt
    /\ Len(db_summaries[CadenceConv]) = 2
    /\ db_summaries[CadenceConv][1] # db_summaries[CadenceConv][2]
    /\ db_summaries[CadenceConv][1].len > 0
    /\ calls[1].llm_messages[1].content.base_prompt.summary = db_summaries[CadenceConv][2]

------------------------------------------------------------------------------
(* Properties of create_messages_hash, checked under SpecHash *)

\* The value a dict holds under a key.
ValueOf(d, key) == d[CHOOSE j \in DOMAIN d : d[j][1] = key][2]

\* The {role, content} pairs of a list of dicts, in order.
RoleContentPairs(dicts) ==
    [k \in DOMAIN dicts |-> [role |-> ValueOf(dicts[k], "role"),
                             content |-> ValueOf(dicts[k], "content")]]

\* C18: two create_messages_hash calls whose lists hold the same {role, content}
\* pairs in the same order return the same key, whatever the key order inside
\* each dict, the time of the call and the number of calls before it; and a call
\* changes no state of the process.
C18_HashDeterminism ==
    /\ [](\A i, j \in DOMAIN hash_calls :
             RoleContentPairs(hash_calls[i].messages) = RoleContentPairs(hash_calls[j].messages)
             => hash_calls[i].result = hash_calls[j].result)
    /\ [][hash_calls' # hash_calls
            => UNCHANGED <<llm_calls, app_state, now, ticks, cache_manager, redis_store, performance_monitor,
                           db_messages, db_summaries, conversation_states, calls, last_op,
                           scopes, metrics_reader>>]_vars

\* Two calls at different times on lists with the same pairs, written in different
\* key orders, have returned the same key.
C18_Witness ==
    /\ Len(hash_calls) = 2
    /\ Len(hash_calls[1].messages) = MaxHashLen
    /\ hash_calls[1].at < hash_calls[2].at
    /\ hash_calls[1].messages # hash_calls[2].messages
    /\ RoleContentPairs(hash_calls[1].messages) = RoleContentPairs(hash_calls[2].messages)
    /\ hash_calls[1].result = hash_calls[2].result

====
